---- MODULE Spec2Model ----
(***************************************************************************)
(* Flint: diary/note reconciliation.                                       *)
(*                                                                         *)
(* Text is modelled as a sequence of tokens.  Every token stands for one   *)
(* fixed piece of literal text, so a token sequence is a concrete Python   *)
(* string and strip / split / join / startswith are computed on it the     *)
(* way the source computes them on characters:                             *)
(*   "\n"  a newline            " "   a blank                              *)
(*   "## Diary"   the target heading text                                  *)
(*   "## B"       some other level-2 heading text                          *)
(*   "### Events", "### Tasks"  the template's level-3 headings            *)
(*   "x", "y"     one character of ordinary text (old / new)               *)
(*   the two placeholder sentences of each diary variant                   *)
(***************************************************************************)
EXTENDS Integers, Sequences, FiniteSets, TLC

NL == "\n"
SP == " "
DIARY == "## Diary"
HEADING_B == "## B"
EVENTS == "### Events"
TASKS == "### Tasks"

CAL_FALLBACK_TODAY == "No calendar events recorded for today"
TASKS_FALLBACK_TODAY == "No tasks completed today"
CAL_FALLBACK_DAY == "No calendar events recorded for this day"
TASKS_FALLBACK_DAY == "No tasks completed on this day"

\* Python's None, and a note file that does not exist.
NoneVal == <<"None">>
NoFile == <<"no file">>

\* Bounds of the pure-function specification.
MaxDocLines == 3
MaxSecLines == 2

\* Bound of the diary-run specification: runs per behaviour.
MaxRuns == 2

VARIABLES
  existing_content,   \* replace_diary_section: first argument
  new_diary_section,  \* replace_diary_section: second argument
  merged,             \* replace_diary_section(existing_content, new_diary_section)
  remerged,           \* replace_diary_section(merged, new_diary_section)
  mstep               \* "input" | "merged" | "remerged"

mvars == <<existing_content, new_diary_section, merged, remerged, mstep>>

VARIABLES
  env,            \* deployment: notes folder set?, what each tool server does
  note,           \* content of the day's note file, or NoFile
  pc,             \* position of the current diary run
  entry,          \* "script" (update_diary.py), "cli" (cli.py) or "job" (bot)
  args,           \* command-line flags of the current run
  calendar_data,  \* fetched calendar text or NoneVal
  tasks_data,     \* fetched tasks text or NoneVal
  rendered,       \* diary_content / prompt of the current run, or NoneVal
  sent,           \* chat messages sent by diary runs
  result,         \* how the current run ended
  note_at_start,  \* the note file when the current run started
  runs,           \* runs started so far
  prev            \* how the previous run ended and with which flags

dvars == <<env, note, pc, entry, args, calendar_data, tasks_data, rendered,
           sent, result, note_at_start, runs, prev>>

\* Bounds of the registry specification: entries per configuration file,
\* reloads per behaviour.
MaxEntries == 2
MaxReloads == 2

VARIABLES
  config_file,    \* the YAML file at settings.mcp_config_path, as a reload finds it
  mcps,           \* MCPConfigReader.mcps: name -> MCPConfiguration
  raw_config,     \* MCPConfigReader._raw_config, by its shape
  loaded_at,      \* name -> number of the reload that constructed mcps[name]
  outcome,        \* how the last reload_config() ended
  os_environ,     \* the host environment
  server_params,  \* what the last get_server_params() returned or raised
  asked,          \* the entry the last get_server_params() was called on, as it was
  reloads         \* reload_config() calls so far

rvars == <<config_file, mcps, raw_config, loaded_at, outcome, os_environ,
           server_params, asked, reloads>>

\* Bounds of the tool-client specification: parts per model response,
\* get_response calls per behaviour.
MaxParts == 2
MaxInvocations == 2
MaxUpdates == 2
MaxExports == 3
MaxLaunchSteps == 3

VARIABLES
  cpc,             \* position of the current get_response call
  subprocess,      \* the tool server process: "none" | "running" | "stopped"
  client_session,  \* MCPClient._client_session: "none" | "live" | "closed"
  response,        \* shape of the first model response of the current call
  parts,           \* parts of that response still to process
  final_text,      \* final_text of the current call
  lifecycle,       \* what the current call has done with the server and the model
  gen_calls,       \* generation calls of the current call
  tool_calls,      \* tool calls of the current call
  tool_results,    \* tool calls of the current call that returned
  fn_parts,        \* function-call parts of the first response
  returned,        \* how the last get_response call ended
  clog,            \* log records of the current call
  outside,         \* what the last call_tool / list_tools outside get_response did
  invocations      \* get_response calls so far

cvars == <<cpc, subprocess, client_session, response, parts, final_text,
           lifecycle, gen_calls, tool_calls, tool_results, fn_parts, returned,
           clog, outside, invocations>>

\* plugins/schedule.py: one run of send_agenda
VARIABLES
  spc,              \* position in send_agenda
  job,              \* context.job: which of job, job.data, job.chat_id are there
  agenda_env,       \* what the registry, the two tool servers and the model do
  weather_data,     \* local weather_data
  agenda_calendar,  \* local calendar_data
  agenda_prompt,    \* PROMPT_TEMPLATE.format(...)
  agenda_sent,      \* text handed to settings.send_message
  agenda_errors,    \* messages of settings.logger.error
  agenda_result     \* how send_agenda ended

svars == <<spc, job, agenda_env, weather_data, agenda_calendar, agenda_prompt,
           agenda_sent, agenda_errors, agenda_result>>

\* plugins/diary.py generate_diary_entry and update_diary.py main: the two
\* tool invocations of one run, step by step
VARIABLES
  order_run,         \* the program and what its two tool servers do
  cal_call,          \* pending, skipped, in_flight, done or failed
  tasks_call,        \* the same for the task source
  call_events,       \* the issue / end / render events so far
  template_rendered  \* the prompt or entry has been rendered

ovars == <<order_run, cal_call, tasks_call, call_events, template_rendered>>

\* main.py / telega/main.py: the bot's update handlers
VARIABLES
  user_filter_env,  \* the value of USER_FILTER in the environment
  user_filter,      \* settings.user_filter
  bot_update,       \* the update of the last handler call
  bot_handler,      \* the handler called last
  bot_allowed,      \* what is_user_allowed returned in it
  bot_effects,      \* what that call did: reply, reload, model call, tool call
  bot_handled       \* number of handler calls

bvars == <<user_filter_env, user_filter, bot_update, bot_handler, bot_allowed, bot_effects, bot_handled>>

\* utils/todoist.py: the folder of exported task notes
VARIABLES
  include_completed,  \* ExportConfig.include_completed
  todoist_files,      \* the note file of each task id: absent, or its lines
  exported_data,      \* the task data each file was last exported from
  last_export,        \* the file before and after the last export_task
  scan,               \* the last scan_todoist_completed_tasks_today
  todoist_steps       \* number of exports and edits so far

tvars == <<include_completed, todoist_files, exported_data, last_export, scan, todoist_steps>>

\* main.py, telega/main.py, plugins/diary.py, plugins/schedule.py: who asks the registry for a launch descriptor
VARIABLES
  launch_config,  \* the configuration file: name -> "absent", "enabled" or "disabled"
  handlers,       \* the commands main.py registered handle_mcp_message for
  bot_started,    \* main.py has registered the handlers
  launches,       \* the get_server_params() calls so far: who asked, for which entry
  launch_steps    \* number of edits and runs so far

lvars == <<launch_config, handlers, bot_started, launches, launch_steps>>

\* update_diary.py: two runs of save_diary_entry on the same note file
VARIABLES
  shared_note,    \* the note file both runs save to: its content, or NoFile
  original_note,  \* the note file before the two runs
  saver_pc,       \* per run: start, loaded, opened, done or refused
  saver_force,    \* per run: the force argument
  saver_content,  \* per run: the diary_content argument
  saver_updated   \* per run: its local updated_content

wvars == <<shared_note, original_note, saver_pc, saver_force, saver_content, saver_updated>>

nonmerge == <<dvars, rvars, cvars, svars, ovars, bvars, tvars, lvars, wvars>>
nondiary == <<mvars, rvars, cvars, svars, ovars, bvars, tvars, lvars, wvars>>
nonregistry == <<mvars, dvars, cvars, svars, ovars, bvars, tvars, lvars, wvars>>
nonclient == <<mvars, dvars, rvars, svars, ovars, bvars, tvars, lvars, wvars>>
nonschedule == <<mvars, dvars, rvars, cvars, ovars, bvars, tvars, lvars, wvars>>
nonorder == <<mvars, dvars, rvars, cvars, svars, bvars, tvars, lvars, wvars>>
nonbot == <<mvars, dvars, rvars, cvars, svars, ovars, tvars, lvars, wvars>>
nontodoist == <<mvars, dvars, rvars, cvars, svars, ovars, bvars, lvars, wvars>>
nonlaunch == <<mvars, dvars, rvars, cvars, svars, ovars, bvars, tvars, wvars>>
nonsave == <<mvars, dvars, rvars, cvars, svars, ovars, bvars, tvars, lvars>>

vars == <<mvars, dvars, rvars, cvars, svars, ovars, bvars, tvars, lvars, wvars>>

----------------------------------------------------------------------------
(* Python string primitives on token sequences                             *)

\* str.strip() removes these from both ends.
Whitespace == {SP, NL}

RECURSIVE LStrip(_)
LStrip(s) == IF s # <<>> /\ Head(s) \in Whitespace THEN LStrip(Tail(s)) ELSE s

RECURSIVE RStrip(_)
RStrip(s) ==
  IF s # <<>> /\ s[Len(s)] \in Whitespace
  THEN RStrip(SubSeq(s, 1, Len(s) - 1))
  ELSE s

Strip(s) == RStrip(LStrip(s))

\* str.split("\n"): always at least one (possibly empty) line.
RECURSIVE SplitLines(_)
SplitLines(s) ==
  IF \A k \in 1..Len(s) : s[k] # NL
  THEN <<s>>
  ELSE LET i == CHOOSE k \in 1..Len(s) : s[k] = NL /\ \A j \in 1..(k - 1) : s[j] # NL
       IN  <<SubSeq(s, 1, i - 1)>> \o SplitLines(SubSeq(s, i + 1, Len(s)))

\* "\n".join(lines)
RECURSIVE JoinLines(_)
JoinLines(ls) ==
  IF ls = <<>> THEN <<>>
  ELSE IF Len(ls) = 1 THEN ls[1]
  ELSE ls[1] \o <<NL>> \o JoinLines(Tail(ls))

\* line.startswith("## "): the tokens whose text begins with "## ".
StartsWithH2(line) == line # <<>> /\ Head(line) \in {DIARY, HEADING_B}

\* line.strip() == "## Diary"
IsDiaryHeading(line) == Strip(line) = <<DIARY>>

----------------------------------------------------------------------------
(* utils/obsidian.py: replace_diary_section                                *)

\* line 22: the result for an empty or whitespace-only document
EmptyDocumentResultNoStrip(new) == new
EmptyDocumentResult(new) == Strip(new)

\* lines 39-40: what is emitted when a "## " line ends the diary section
SectionEndLinesNoBlank(line) == <<line>>
SectionEndLines(line) == << <<>>, line >>

\* line 46: the guard of the append branch
AppendNeededAlways(found) == TRUE
AppendNeeded(found) == ~found

\* line 48: what the append branch adds to result_lines
AppendedLinesNoBlank(new) == << Strip(new) >>
AppendedLines(new) == << <<>>, Strip(new) >>

\* line 34: what stands in place of a "## Diary" line
ReplacementLinesKept(line, new) == <<line>> \o SplitLines(Strip(new))
ReplacementLines(line, new) == SplitLines(Strip(new))

\* lines 30-44: the scan over the lines of the existing document
RECURSIVE ScanLines(_, _, _, _, _)
ScanLines(lines, new, in_diary_section, diary_section_found, result_lines) ==
  IF lines = <<>>
  THEN [result_lines |-> result_lines, diary_section_found |-> diary_section_found]
  ELSE LET line == Head(lines)
           rest == Tail(lines)
       IN  IF IsDiaryHeading(line)
           THEN ScanLines(rest, new, TRUE, TRUE,
                          result_lines \o ReplacementLines(line, new))
           ELSE IF in_diary_section /\ StartsWithH2(line)
           THEN ScanLines(rest, new, FALSE, diary_section_found,
                          result_lines \o SectionEndLines(line))
           ELSE IF ~in_diary_section
           THEN ScanLines(rest, new, in_diary_section, diary_section_found,
                          result_lines \o <<line>>)
           ELSE ScanLines(rest, new, in_diary_section, diary_section_found,
                          result_lines)

replace_diary_section(existing, new) ==
  IF Strip(existing) = <<>>
  THEN EmptyDocumentResult(new)
  ELSE LET r == ScanLines(SplitLines(existing), new, FALSE, FALSE, <<>>)
       IN  JoinLines(IF AppendNeeded(r.diary_section_found)
                     THEN r.result_lines \o AppendedLines(new)
                     ELSE r.result_lines)

----------------------------------------------------------------------------
(* plugins/mcp.py: MCPConfiguration and MCPConfigReader                    *)

\* A Python dict with string keys is a function on its keys.
EmptyDict == [k \in {} |-> ""]

\* dict.get(key, default)
Get(dict, key, default) == IF key \in DOMAIN dict THEN dict[key] ELSE default

\* dict[key] = value
Put(dict, key, value) ==
  [k \in DOMAIN dict \cup {key} |-> IF k = key THEN value ELSE dict[k]]

DefaultTimeout == 300

\* A value of the extensions mapping as yaml.safe_load returns it: a string,
\* a mapping, or something else (a number, a list, null).
StrEntry(text) == [shape |-> "str", str |-> text, dict |-> EmptyDict]
DictEntry(dict) == [shape |-> "dict", str |-> "", dict |-> dict]
OtherEntry == [shape |-> "other", str |-> "", dict |-> EmptyDict]

Raised(kind, about) == [ok |-> FALSE, kind |-> kind, about |-> about]
Returned == [ok |-> TRUE, kind |-> "none", about |-> ""]
NotCalled == [ok |-> TRUE, kind |-> "not called", about |-> ""]

\* MCPConfiguration.__post_init__: the error it raises, or "" for none.
post_init(name, type) ==
  IF name = "" THEN "MCP name cannot be empty"
  ELSE IF type = "" THEN "MCP type cannot be empty"
  ELSE ""

\* MCPConfiguration(name=..., type=..., enabled=..., config=..., metadata=...)
MCPConfiguration(name, type, enabled, config, metadata) ==
  [ok |-> post_init(name, type) = "",
   mcp |-> [name |-> name, type |-> type, enabled |-> enabled,
            config |-> config, metadata |-> metadata]]

\* MCPConfigReader._create_mcp_configuration: the descriptor, or not ok when
\* it raises ValueError.
create_mcp_configuration(name, raw) ==
  IF raw.shape = "str"
  THEN MCPConfiguration(name, raw.str, TRUE, EmptyDict, EmptyDict)
  ELSE IF raw.shape # "dict"
  THEN [ok |-> FALSE, mcp |-> EmptyDict]
  ELSE
    LET config == raw.dict
        type0 == Get(config, "type", Get(config, "command", ""))
        enabled == Get(config, "enabled", TRUE)
        extensions == "cmd" \in DOMAIN config
        config1 ==
          IF extensions
          THEN [cmd |-> config["cmd"],
                args |-> Get(config, "args", <<>>),
                envs |-> Get(config, "envs", EmptyDict),
                env_keys |-> Get(config, "env_keys", <<>>),
                timeout |-> Get(config, "timeout", DefaultTimeout),
                bundled |-> Get(config, "bundled", NoneVal)]
          ELSE IF "args" \in DOMAIN config /\ Get(config, "config", EmptyDict) = EmptyDict
          THEN [args |-> config["args"]]
          ELSE Get(config, "config", EmptyDict)
        metadata ==
          IF extensions
          THEN [description |-> Get(config, "description", ""),
                name |-> Get(config, "name", name)]
          ELSE Get(config, "metadata", EmptyDict)
        legacy == type0 = "" /\ "command" \in DOMAIN config
        type1 == IF legacy THEN "command" ELSE type0
        config2 ==
          IF ~legacy THEN config1
          ELSE IF "args" \in DOMAIN config
          THEN [command |-> config["command"], args |-> config["args"]]
          ELSE [command |-> config["command"]]
    IN  MCPConfiguration(name, type1, enabled, config2, metadata)

\* The loop of MCPConfigReader._parse_configuration over the extensions
\* mapping, in file order: every entry up to the first one that raises is
\* stored.
\* (made: the names whose descriptors this call constructed.)
RECURSIVE ParseEntries(_, _, _)
ParseEntries(entries, loaded, made) ==
  IF entries = <<>> THEN [mcps |-> loaded, made |-> made, outcome |-> Returned]
  ELSE LET new == create_mcp_configuration(Head(entries).name, Head(entries).entry)
       IN  IF new.ok
           THEN ParseEntries(Tail(entries), Put(loaded, Head(entries).name, new.mcp),
                             made \cup {Head(entries).name})
           ELSE [mcps |-> loaded, made |-> made,
                 outcome |-> Raised("ValueError", Head(entries).name)]

\* self.mcps.clear() of _parse_configuration.
Cleared(old) == EmptyDict

\* MCPConfigReader._parse_configuration on the loaded document.
parse_configuration(file, old) ==
  CASE file.kind = "list" ->
         [mcps |-> Cleared(old), made |-> {}, outcome |-> Raised("TypeError", "")]
    [] file.kind \in {"empty", "no_extensions"} ->
         [mcps |-> Cleared(old), made |-> {}, outcome |-> Raised("KeyError", "")]
    [] file.kind = "extensions_not_dict" ->
         [mcps |-> Cleared(old), made |-> {}, outcome |-> Raised("ValueError", "")]
    [] OTHER -> ParseEntries(file.entries, Cleared(old), {})

\* MCPConfigReader.load_config: the registry and the raw document it leaves,
\* and how it ended.
load_config(file, old, old_raw) ==
  CASE file.kind = "missing" ->
         [mcps |-> old, made |-> {}, raw |-> old_raw,
          outcome |-> Raised("FileNotFoundError", "")]
    [] file.kind = "unreadable" ->
         [mcps |-> old, made |-> {}, raw |-> old_raw, outcome |-> Raised("OSError", "")]
    [] file.kind = "malformed" ->
         [mcps |-> old, made |-> {}, raw |-> old_raw, outcome |-> Raised("YAMLError", "")]
    [] OTHER ->
         LET parsed == parse_configuration(file, old)
         IN  [mcps |-> parsed.mcps, made |-> parsed.made, raw |-> file.kind,
              outcome |-> parsed.outcome]

\* for key in env_keys: envs[key] = os.environ.get(key, '')
RECURSIVE CopyHostKeys(_, _, _)
CopyHostKeys(envs, env_keys, environ) ==
  IF env_keys = <<>> THEN envs
  ELSE CopyHostKeys(Put(envs, Head(env_keys), Get(environ, Head(env_keys), "")),
                    Tail(env_keys), environ)

\* Whether get_server_params fills the dict the descriptor stores (the value
\* of config['envs']) or a dict of its own.
FillsStored(config) == "envs" \in DOMAIN config

\* The command check of get_server_params.
CommandDefaulted(command) == FALSE
CommandMissing(command) == command = ""

\* MCPConfiguration.get_server_params: the descriptor afterwards, and the
\* StdioServerParameters returned or the ValueError raised.
get_server_params(mcp, environ) ==
  LET stored == Get(mcp.config, "envs", EmptyDict)
      envs == IF stored = EmptyDict
              THEN CopyHostKeys(stored, Get(mcp.config, "env_keys", <<>>), environ)
              ELSE stored
      after == IF FillsStored(mcp.config)
               THEN [mcp EXCEPT !.config = Put(mcp.config, "envs", envs)]
               ELSE mcp
      cmd == Get(mcp.config, "cmd", "")
      command == IF cmd # "" THEN cmd ELSE Get(mcp.config, "command", "")
  IN  IF CommandMissing(command)
      THEN [mcp |-> after, ok |-> FALSE, about |-> mcp.name,
            params |-> [command |-> "", args |-> <<>>, env |-> EmptyDict]]
      ELSE [mcp |-> after, ok |-> TRUE, about |-> "",
            params |-> [command |-> command,
                        args |-> Get(mcp.config, "args", <<>>),
                        env |-> envs]]

NoParams == [ok |-> TRUE, about |-> "not called",
             params |-> [command |-> "", args |-> <<>>, env |-> EmptyDict]]

NoFileYet == [kind |-> "missing", entries |-> <<>>]

RegistryIdle ==
  /\ config_file = NoFileYet
  /\ mcps = EmptyDict
  /\ raw_config = "empty"
  /\ loaded_at = EmptyDict
  /\ outcome = NotCalled
  /\ os_environ = EmptyDict
  /\ server_params = NoParams
  /\ asked = EmptyDict
  /\ reloads = 0

\* get_response has not been called: MCPClient.__init__.
NotReturned == [status |-> "none", text |-> <<>>, absent |-> FALSE]

\* No run is being followed call by call.
OrderIdle ==
  /\ order_run = [program |-> "job", cal |-> "text", tasks |-> "text",
                  no_calendar |-> FALSE, no_tasks |-> FALSE]
  /\ cal_call = "pending"
  /\ tasks_call = "pending"
  /\ call_events = <<>>
  /\ template_rendered = FALSE

\* The bot has handled no update.
BotIdle ==
  /\ user_filter_env = <<"None">>
  /\ user_filter = <<>>
  /\ bot_update = [user |-> FALSE, username |-> <<"None">>, message |-> "none", args |-> FALSE]
  /\ bot_handler = "none"
  /\ bot_allowed = FALSE
  /\ bot_effects = [replied |-> FALSE, reloaded |-> FALSE, model_called |-> FALSE,
                    tool_called |-> FALSE]
  /\ bot_handled = 0

\* Nothing has been exported or scanned.
TodoistIdle ==
  /\ include_completed = FALSE
  /\ todoist_files = [id \in {"1", "2"} |-> [exists |-> FALSE, lines |-> << <<>> >>]]
  /\ exported_data = [id \in {"1", "2"} |->
                       [id |-> "none", is_completed |-> FALSE, completed_date |-> "none", description |-> "none"]]
  /\ last_export = [id |-> "none", unchanged_data |-> FALSE,
                    before |-> [exists |-> FALSE, lines |-> << <<>> >>],
                    after |-> [exists |-> FALSE, lines |-> << <<>> >>]]
  /\ scan = [done |-> FALSE, today |-> "d1", listed |-> {}, text |-> "none",
             folder |-> [id \in {"1", "2"} |-> [exists |-> FALSE, lines |-> << <<>> >>]]]
  /\ todoist_steps = 0

\* The bot has not started and no tool server was asked for.
LaunchIdle ==
  /\ launch_config = [n \in {"calendar", "todoist", "weather"} |-> "absent"]
  /\ handlers = {}
  /\ bot_started = FALSE
  /\ launches = {}
  /\ launch_steps = 0

\* No save_diary_entry is running.
SaveIdle ==
  /\ shared_note = NoFile
  /\ original_note = NoFile
  /\ saver_pc = [p \in {"a", "b"} |-> "idle"]
  /\ saver_force = [p \in {"a", "b"} |-> FALSE]
  /\ saver_content = [p \in {"a", "b"} |-> <<>>]
  /\ saver_updated = [p \in {"a", "b"} |-> <<>>]

\* No send_agenda has run.
ScheduleIdle ==
  /\ spc = "idle"
  /\ job = [job |-> TRUE, data |-> TRUE, chat_id |-> TRUE]
  /\ agenda_env = [registry |-> "ok", weather |-> "text", cal |-> "text", final |-> "text"]
  /\ weather_data = NoneVal
  /\ agenda_calendar = NoneVal
  /\ agenda_prompt = <<>>
  /\ agenda_sent = <<>>
  /\ agenda_errors = {}
  /\ agenda_result = [status |-> "none", cause |-> "none"]

ClientIdle ==
  /\ cpc = "idle"
  /\ subprocess = "none"
  /\ client_session = "none"
  /\ response = "none"
  /\ parts = <<>>
  /\ final_text = <<>>
  /\ lifecycle = <<>>
  /\ gen_calls = 0
  /\ tool_calls = 0
  /\ tool_results = 0
  /\ fn_parts = 0
  /\ returned = NotReturned
  /\ clog = {}
  /\ outside = "none"
  /\ invocations = 0

----------------------------------------------------------------------------
(* Inputs of the pure-function specification                               *)

SeqsUpTo(S, n) == UNION { [1..k -> S] : k \in 0..n }

\* Line shapes of existing documents: blank, text, the target heading,
\* another heading, an indented heading, an indented target heading, and a
\* whitespace-only line.
DocLineKinds ==
  { <<>>, <<"x">>, <<DIARY>>, <<HEADING_B>>, <<SP, HEADING_B>>, <<SP, DIARY>>, <<SP>> }

\* Line shapes of new sections.
SecLineKinds == { <<>>, <<"y">>, <<DIARY>>, <<HEADING_B>>, <<SP>> }

Docs == { JoinLines(ls) : ls \in SeqsUpTo(DocLineKinds, MaxDocLines) }
Secs == { JoinLines(ls) : ls \in SeqsUpTo(SecLineKinds, MaxSecLines) }

NoArgs == [force |-> FALSE, dry_run |-> FALSE, no_calendar |-> FALSE, no_tasks |-> FALSE]

NoResult ==
  [saved |-> FALSE, previewed |-> FALSE, aborted |-> FALSE, cause |-> "none", exit_code |-> 0]

NoPrev == [saved |-> FALSE, entry |-> "none", no_calendar |-> FALSE, no_tasks |-> FALSE]

\* No diary run is going on (the pure-function specification).
DiaryIdle ==
  /\ env = [folder |-> TRUE, cal |-> "text", tasks |-> "text"]
  /\ note = NoFile
  /\ pc = "idle"
  /\ entry = "none"
  /\ args = NoArgs
  /\ calendar_data = NoneVal
  /\ tasks_data = NoneVal
  /\ rendered = NoneVal
  /\ sent = <<>>
  /\ result = NoResult
  /\ note_at_start = NoFile
  /\ runs = 0
  /\ prev = NoPrev

MergeInit ==
  /\ existing_content \in Docs
  /\ new_diary_section \in Secs
  /\ merged = <<>>
  /\ remerged = <<>>
  /\ mstep = "input"
  /\ DiaryIdle
  /\ RegistryIdle
  /\ ClientIdle
  /\ SaveIdle
  /\ LaunchIdle
  /\ TodoistIdle
  /\ BotIdle
  /\ OrderIdle
  /\ ScheduleIdle

\* One call of replace_diary_section on the chosen input.
Merge ==
  /\ mstep = "input"
  /\ merged' = replace_diary_section(existing_content, new_diary_section)
  /\ mstep' = "merged"
  /\ UNCHANGED <<existing_content, new_diary_section, remerged, nonmerge>>

\* A second call, on the first call's result, with the same section.
MergeAgain ==
  /\ mstep = "merged"
  /\ remerged' = replace_diary_section(merged, new_diary_section)
  /\ mstep' = "remerged"
  /\ UNCHANGED <<existing_content, new_diary_section, merged, nonmerge>>

MergeNext == Merge \/ MergeAgain

SpecMerge == MergeInit /\ [][MergeNext]_vars

----------------------------------------------------------------------------
(* Diary runs: update_diary.py (script), cli.py (cli), plugins/diary.py    *)
(* scheduled from main.py (job)                                            *)

\* What a tool server does for the whole behaviour (the fixed upstream
\* responses):
\*   unconfigured  settings.agenda_mcp_*_name is empty
\*   unresolved    get_mcp_configuration(name) returns None
\*   params_error  get_server_params() raises
\*   invoke_error  MCPClient(...) / get_response() raises
\*   no_text       get_response() returns None
\*   empty         get_response() returns ""
\*   text          get_response() returns "x"
\*   heading_text  get_response() returns "## B"
ToolModes ==
  { "unconfigured", "unresolved", "params_error", "invoke_error",
    "no_text", "empty", "text", "heading_text" }

NameConfigured(mode) == mode # "unconfigured"

\* The value a source's fetch leaves in calendar_data / tasks_done once the
\* registry is loaded: None when the name does not resolve or the try
\* block raises, otherwise what get_response returned.
ToolData(mode) ==
  CASE mode = "unresolved"   -> NoneVal
    [] mode = "params_error" -> NoneVal
    [] mode = "invoke_error" -> NoneVal
    [] mode = "no_text"      -> NoneVal
    [] mode = "empty"        -> <<>>
    [] mode = "text"         -> <<"x">>
    [] mode = "heading_text" -> <<HEADING_B>>
    [] OTHER                 -> NoneVal

\* Python's `value or default` for str | None.
OrDefaultNoneOnly(value, default) == IF value = NoneVal THEN default ELSE value
OrDefault(value, default) ==
  IF value = NoneVal \/ value = <<>> THEN default ELSE value

\* DIARY_TEMPLATE.format(calendar_data=..., tasks_done=...)
DiaryTemplate(cal, tasks) ==
  <<NL, DIARY, NL, NL, EVENTS, NL>> \o cal \o <<NL, NL, TASKS, NL>> \o tasks \o <<NL>>

\* update_diary.py: create_diary_entry
create_diary_entry(cal, tasks) ==
  DiaryTemplate(OrDefault(cal, <<CAL_FALLBACK_DAY>>),
                OrDefault(tasks, <<TASKS_FALLBACK_DAY>>))

\* plugins.diary.create_diary_content as cli.py calls it.
create_diary_content(cal, tasks) ==
  DiaryTemplate(OrDefault(cal, <<CAL_FALLBACK_TODAY>>),
                OrDefault(tasks, <<TASKS_FALLBACK_TODAY>>))

\* plugins/diary.py: DIARY_PROMPT_TEMPLATE.format(...), the two data slots
DiaryPrompt(cal, tasks) ==
  <<"Calendar events from today:", NL>>
    \o OrDefault(cal, <<CAL_FALLBACK_TODAY>>)
    \o <<NL, NL, "Tasks completed today:", NL>>
    \o OrDefault(tasks, <<TASKS_FALLBACK_TODAY>>)

\* Where a failing write can stop: nothing flushed after the truncating
\* open, or half of the content.
PartialWrites(content) ==
  { SubSeq(content, 1, k) : k \in {0, Len(content) \div 2} } \ {content}

\* The write of lines 363-370 / the write of update_daily_note_file:
\* open(file_path, "w") fails, or truncates and the write fails, or succeeds.
WriteOutcomes(old, updated) ==
  {[note |-> old, ok |-> FALSE, cause |-> "io"]}
    \cup {[note |-> p, ok |-> FALSE, cause |-> "io"] : p \in PartialWrites(updated)}
    \cup {[note |-> updated, ok |-> TRUE, cause |-> "none"]}

Existing(file) == IF file = NoFile THEN <<>> ELSE file

\* update_diary.py: save_diary_entry, every way it can end
save_diary_entry(file, diary_content, force) ==
  {[note |-> file, ok |-> FALSE, cause |-> "io"]}              \* mkdir fails
    \cup IF file # NoFile /\ ~force
         THEN {[note |-> file, ok |-> FALSE, cause |-> "exists"]}
         ELSE (IF file # NoFile                                \* read fails
               THEN {[note |-> file, ok |-> FALSE, cause |-> "io"]}
               ELSE {})
              \cup WriteOutcomes(file, replace_diary_section(Existing(file), diary_content))

\* plugins.diary.update_daily_note_file as cli.py calls it: read the file if
\* present, merge, write back; a failure leaves the old content.
update_daily_note_file(file, diary_content) ==
  { [note |-> file, ok |-> FALSE, cause |-> "io"],
    [note |-> replace_diary_section(Existing(file), diary_content),
     ok |-> TRUE, cause |-> "none"] }

\* cli.py: check_existing_file
check_existing_file(exists, force, dry_run) == ~(exists /\ ~force /\ ~dry_run)

\* main.py 181: the diary job is scheduled only with a notes folder
\* (SCHEDULED_DIARY_TIME defaults to "23:59").
JobScheduled == env.folder

Args == [force : BOOLEAN, dry_run : BOOLEAN, no_calendar : BOOLEAN, no_tasks : BOOLEAN]

Saved == [saved |-> TRUE, previewed |-> FALSE, aborted |-> FALSE, cause |-> "none", exit_code |-> 0]
Previewed == [saved |-> FALSE, previewed |-> TRUE, aborted |-> FALSE, cause |-> "none", exit_code |-> 0]
Aborted(cause, code) ==
  [saved |-> FALSE, previewed |-> FALSE, aborted |-> TRUE, cause |-> cause, exit_code |-> code]

\* Existing note files a run can start from.
InitialNotes ==
  { NoFile,
    <<"x">>,
    <<DIARY, NL, "x", NL, NL, HEADING_B, NL, "x">> }

\* Deployments: both sources behave alike, or one of them answers with text.
Environments ==
  { e \in [folder : BOOLEAN, cal : ToolModes, tasks : ToolModes] :
      e.cal = e.tasks \/ e.cal = "text" \/ e.tasks = "text" }

DiaryInit ==
  /\ env \in Environments
  /\ note \in InitialNotes
  /\ pc = "idle"
  /\ entry = "none"
  /\ args = NoArgs
  /\ calendar_data = NoneVal
  /\ tasks_data = NoneVal
  /\ rendered = NoneVal
  /\ sent = <<>>
  /\ result = NoResult
  /\ note_at_start = note
  /\ runs = 0
  /\ prev = NoPrev
  /\ existing_content = <<>>
  /\ new_diary_section = <<>>
  /\ merged = <<>>
  /\ remerged = <<>>
  /\ mstep = "idle"
  /\ RegistryIdle
  /\ ClientIdle
  /\ SaveIdle
  /\ LaunchIdle
  /\ TodoistIdle
  /\ BotIdle
  /\ OrderIdle
  /\ ScheduleIdle

CanStart == pc \in {"idle", "done"} /\ runs < MaxRuns

\* A new process / job invocation begins.
Begin(e, a) ==
  /\ entry' = e
  /\ args' = a
  /\ runs' = runs + 1
  /\ note_at_start' = note
  /\ calendar_data' = NoneVal
  /\ tasks_data' = NoneVal
  /\ rendered' = NoneVal
  /\ prev' = IF pc = "done"
             THEN [saved |-> result.saved, entry |-> entry,
                   no_calendar |-> args.no_calendar, no_tasks |-> args.no_tasks]
             ELSE NoPrev

End(r) == pc' = "done" /\ result' = r

\* update_diary.py main, lines 373-420: arguments, environment, date, the
\* check for an existing entry.
ScriptStart ==
  \E a \in Args, date \in {"valid", "invalid"} :
    /\ CanStart
    /\ Begin("script", a)
    /\ IF ~env.folder THEN End(Aborted("env", 0))
       ELSE IF date = "invalid" THEN End(Aborted("date", 1))
       ELSE IF note # NoFile /\ ~a.force /\ ~a.dry_run THEN End(Aborted("exists", 1))
       ELSE pc' = "fetch_calendar" /\ result' = NoResult
    /\ UNCHANGED <<env, note, sent, nondiary>>

\* One source of the script: main 426-432 with fetch_calendar_data /
\* fetch_tasks_data.  reload_config() is outside the try block.
ScriptFetch(skip, mode, next) ==
  IF skip \/ ~NameConfigured(mode)
  THEN [data |-> NoneVal, pc |-> next, result |-> NoResult]
  ELSE [data |-> ToolData(mode), pc |-> next, result |-> NoResult]

ScriptFetchCalendar ==
  /\ entry = "script" /\ pc = "fetch_calendar"
  /\ \E reload_ok \in BOOLEAN :
       IF reload_ok \/ args.no_calendar \/ ~NameConfigured(env.cal)
       THEN LET f == ScriptFetch(args.no_calendar, env.cal, "fetch_tasks")
            IN  calendar_data' = f.data /\ pc' = f.pc /\ result' = f.result
       ELSE calendar_data' = NoneVal /\ End(Aborted("reload", 1))
  /\ UNCHANGED <<env, note, entry, args, tasks_data, rendered, sent,
                 note_at_start, runs, prev, nondiary>>

ScriptFetchTasks ==
  /\ entry = "script" /\ pc = "fetch_tasks"
  /\ \E reload_ok \in BOOLEAN :
       IF reload_ok \/ args.no_tasks \/ ~NameConfigured(env.tasks)
       THEN LET f == ScriptFetch(args.no_tasks, env.tasks, "finish")
            IN  tasks_data' = f.data /\ pc' = f.pc /\ result' = f.result
       ELSE tasks_data' = NoneVal /\ End(Aborted("reload", 1))
  /\ UNCHANGED <<env, note, entry, args, calendar_data, rendered, sent,
                 note_at_start, runs, prev, nondiary>>

\* update_diary.py main, lines 434-451: render, then preview or save.
ScriptFinish ==
  /\ entry = "script" /\ pc = "finish"
  /\ LET diary_content == create_diary_entry(calendar_data, tasks_data)
     IN  /\ rendered' = diary_content
         /\ IF args.dry_run
            THEN note' = note /\ End(Previewed)
            ELSE \E o \in save_diary_entry(note, diary_content, args.force) :
                   /\ note' = o.note
                   /\ End(IF o.ok THEN Saved ELSE Aborted(o.cause, 1))
  /\ UNCHANGED <<env, entry, args, calendar_data, tasks_data, sent,
                 note_at_start, runs, prev, nondiary>>

\* cli.py diary_command, lines 293-311.
CliStart ==
  \E a \in Args, date \in {"valid", "invalid", "conflict"}, path_ok \in BOOLEAN :
    /\ CanStart
    /\ Begin("cli", a)
    /\ IF ~env.folder THEN End(Aborted("env", 1))
       ELSE IF date # "valid" THEN End(Aborted("date", 1))
       ELSE IF ~path_ok THEN End(Aborted("path", 1))
       ELSE IF ~check_existing_file(note # NoFile, a.force, a.dry_run)
       THEN End(Aborted("exists", 1))
       ELSE pc' = "generate" /\ result' = NoResult
    /\ UNCHANGED <<env, note, sent, nondiary>>

\* cli.py generate_diary_content, lines 236-265, under the try of 314-323.
CliGenerate ==
  /\ entry = "cli" /\ pc = "generate"
  /\ \E reload_ok \in BOOLEAN, local_tasks \in {NoneVal, <<"y">>} :
       IF reload_ok
       THEN /\ calendar_data' = IF args.no_calendar \/ ~NameConfigured(env.cal)
                                THEN NoneVal ELSE ToolData(env.cal)
            /\ tasks_data' = IF args.no_tasks THEN NoneVal ELSE local_tasks
            /\ pc' = "finish"
            /\ result' = NoResult
       ELSE /\ UNCHANGED <<calendar_data, tasks_data>>
            /\ End(Aborted("generation", 1))
  /\ UNCHANGED <<env, note, entry, args, rendered, sent, note_at_start, runs,
                 prev, nondiary>>

\* cli.py diary_command, lines 325-333.
CliFinish ==
  /\ entry = "cli" /\ pc = "finish"
  /\ LET diary_content == create_diary_content(calendar_data, tasks_data)
     IN  /\ rendered' = diary_content
         /\ IF args.dry_run
            THEN note' = note /\ End(Previewed)
            ELSE \E o \in update_daily_note_file(note, diary_content) :
                   /\ note' = o.note
                   /\ End(IF o.ok THEN Saved ELSE Aborted(o.cause, 1))
  /\ UNCHANGED <<env, entry, args, calendar_data, tasks_data, sent,
                 note_at_start, runs, prev, nondiary>>

\* plugins/diary.py generate_diary_entry, lines 83-112.  main.py registers it
\* with the job queue only when JobScheduled (and always with a chat id and
\* the job data); any other caller of the callback, such as tests/test_diary.py,
\* invokes it directly.  The function itself looks only at the job, its
\* data and the chat id.
JobStart ==
  /\ CanStart
  /\ \E caller \in {"job_queue", "direct"} : caller = "job_queue" => JobScheduled
  /\ Begin("job", NoArgs)
  /\ \E reload_ok \in BOOLEAN :
       IF reload_ok
       THEN pc' = "fetch_calendar" /\ result' = NoResult
       ELSE End(Aborted("reload", 1))
  /\ UNCHANGED <<env, note, sent, nondiary>>

\* generate_diary_entry, lines 114-132.
JobFetchCalendar ==
  /\ entry = "job" /\ pc = "fetch_calendar"
  /\ calendar_data' = IF NameConfigured(env.cal) THEN ToolData(env.cal) ELSE NoneVal
  /\ pc' = "fetch_tasks"
  /\ UNCHANGED <<env, note, entry, args, tasks_data, rendered, sent, result,
                 note_at_start, runs, prev, nondiary>>

\* generate_diary_entry, lines 134-152.
JobFetchTasks ==
  /\ entry = "job" /\ pc = "fetch_tasks"
  /\ tasks_data' = IF NameConfigured(env.tasks) THEN ToolData(env.tasks) ELSE NoneVal
  /\ pc' = "finish"
  /\ UNCHANGED <<env, note, entry, args, calendar_data, rendered, sent, result,
                 note_at_start, runs, prev, nondiary>>

\* generate_diary_entry, lines 154-196: prompt, model call, chat message.
JobGenerate ==
  /\ entry = "job" /\ pc = "finish"
  /\ rendered' = DiaryPrompt(calendar_data, tasks_data)
  /\ \E generation \in {"text", "empty", "raises"} :
       IF generation = "text"
       THEN sent' = Append(sent, "diary entry") /\ End(NoResult)
       ELSE sent' = Append(sent, "error message") /\ End(Aborted("generation", 0))
  /\ UNCHANGED <<env, note, entry, args, calendar_data, tasks_data,
                 note_at_start, runs, prev, nondiary>>

DiaryNext ==
  \/ ScriptStart \/ ScriptFetchCalendar \/ ScriptFetchTasks \/ ScriptFinish
  \/ CliStart \/ CliGenerate \/ CliFinish
  \/ JobStart \/ JobFetchCalendar \/ JobFetchTasks \/ JobGenerate

SpecDiary == DiaryInit /\ [][DiaryNext]_vars

----------------------------------------------------------------------------
(* The registry: reload_config, get_mcp_configuration, get_server_params   *)

\* Entries of the extensions mapping.
ExtensionsEntry == DictEntry([cmd |-> "x", args |-> <<"a">>, envs |-> [K |-> "v"]])
ExtensionsTyped ==
  DictEntry([type |-> "stdio", cmd |-> "x", args |-> <<"a">>, envs |-> [K |-> "v"]])
ExtensionsHostKeys == DictEntry([type |-> "stdio", cmd |-> "x", env_keys |-> <<"K">>])
LegacyEntry == DictEntry([command |-> "x", args |-> <<"a">>, envs |-> [K |-> "v"]])
LegacyBlankType == DictEntry([type |-> "", command |-> "x", args |-> <<"a">>])
LegacyConfig ==
  DictEntry([type |-> "stdio",
             config |-> [command |-> "x", args |-> <<"a">>, envs |-> [K |-> "v"]]])
BareString == StrEntry("stdio")
NoCommand == DictEntry([type |-> "stdio"])
InvalidEntry == DictEntry([invalid_field |-> "value"])

RawEntries ==
  { ExtensionsEntry, ExtensionsTyped, ExtensionsHostKeys, LegacyEntry,
    LegacyBlankType, LegacyConfig, BareString, NoCommand, InvalidEntry, OtherEntry }

\* Keys with their values: any entry under "cal", a working, a host-keyed or
\* an invalid one under "tasks", and an empty key.
Items ==
  { [name |-> "cal", entry |-> e] : e \in RawEntries }
    \cup { [name |-> "tasks", entry |-> e] :
              e \in {ExtensionsTyped, ExtensionsHostKeys, InvalidEntry} }
    \cup { [name |-> "", entry |-> BareString] }

DistinctNames(entries) ==
  \A i, j \in DOMAIN entries : entries[i].name = entries[j].name => i = j

\* What a reload can find at the configured path.
ConfigFiles ==
  { [kind |-> k, entries |-> <<>>] :
      k \in {"missing", "unreadable", "malformed", "empty", "list",
             "no_extensions", "extensions_not_dict"} }
    \cup { [kind |-> "extensions", entries |-> es] :
             es \in {e \in SeqsUpTo(Items, MaxEntries) : DistinctNames(e)} }

HostEnvironments == { EmptyDict, [K |-> "h"] }

RegistryInit ==
  /\ RegistryIdle
  /\ DiaryIdle
  /\ ClientIdle
  /\ SaveIdle
  /\ LaunchIdle
  /\ TodoistIdle
  /\ BotIdle
  /\ OrderIdle
  /\ ScheduleIdle
  /\ existing_content = <<>>
  /\ new_diary_section = <<>>
  /\ merged = <<>>
  /\ remerged = <<>>
  /\ mstep = "idle"

\* MCPConfigReader.reload_config on whatever file is there now.
Reload ==
  \E file \in ConfigFiles :
    /\ reloads < MaxReloads
    /\ reloads' = reloads + 1
    /\ config_file' = file
    /\ LET loaded == load_config(file, mcps, raw_config)
       IN  /\ mcps' = loaded.mcps
           /\ raw_config' = loaded.raw
           /\ outcome' = loaded.outcome
           /\ loaded_at' =
                [n \in DOMAIN loaded.mcps |->
                   IF n \in loaded.made THEN reloads + 1 ELSE loaded_at[n]]
    /\ server_params' = NoParams
    /\ asked' = EmptyDict
    /\ UNCHANGED <<os_environ, nonregistry>>

\* get_mcp_configuration(name), then get_server_params() on the descriptor
\* it returned, under some host environment.
GetServerParams ==
  \E name \in DOMAIN mcps, environ \in HostEnvironments :
    LET got == get_server_params(mcps[name], environ)
    IN  /\ os_environ' = environ
        /\ asked' = mcps[name]
        /\ mcps' = [mcps EXCEPT ![name] = got.mcp]
        /\ server_params' = [ok |-> got.ok, about |-> got.about, params |-> got.params]
        /\ UNCHANGED <<config_file, raw_config, loaded_at, outcome, reloads,
                       nonregistry>>

RegistryNext == Reload \/ GetServerParams

SpecRegistry == RegistryInit /\ [][RegistryNext]_vars

----------------------------------------------------------------------------
(* plugins/mcp.py: MCPClient                                               *)

\* The fixed sentences get_response puts into final_text.
T_NO_CANDIDATES == "I couldn't generate a proper response."
T_INCOMPLETE == "I received an incomplete response."
T_ERROR == "I encountered an error while processing your request"
T_NEED_CALL == "I need to call the function to help with your request."
T_TOOL_ERROR == "Error executing tool"
T_NO_FOLLOWUP_TEXT == "I received the tool results but couldn't generate a follow-up response."
T_NO_FOLLOWUP == "I processed your request but couldn't generate a follow-up response."
T_FOLLOWUP_ERROR == "I received the tool results but encountered an error"
\* Text of the model, and a truthy part.text that is not a str.
ANSWER == "answer"
NOT_A_STR == "<not a str>"

\* A part of the first response: text, "" as text, no text, a truthy
\* non-string text, or a function call.
PartKinds == {"text", "empty_text", "no_text", "nonstring_text", "function_call"}

\* chat.send_message raises, or returns a response without candidates,
\* without content, with content.parts = None, or with a list of parts.
FirstResponses ==
  { [shape |-> k, parts |-> <<>>] :
      k \in {"raises", "no_candidates", "no_content", "parts_none"} }
    \cup { [shape |-> "parts", parts |-> ps] : ps \in SeqsUpTo(PartKinds, MaxParts) }

\* generate_content of the follow-up raises, or returns a response without
\* candidates, without content, or with one part: text, "", text None, or a
\* further function call (whose text is None).
FollowUps ==
  { "raises", "no_candidates", "no_content", "text", "empty_text", "text_none",
    "function_call" }

Log(level, names) == [level |-> level, names |-> names]

\* Leaving `async with self.initialize()`: the exit stack closes the session
\* and the process; self._client_session keeps its reference.
Shutdown ==
  /\ subprocess' = IF subprocess = "running" THEN "stopped" ELSE subprocess
  /\ client_session' = IF client_session = "live" THEN "closed" ELSE client_session
  /\ lifecycle' = IF subprocess = "running" THEN Append(lifecycle, "shutdown")
                  ELSE lifecycle

\* An exception leaves get_response.
Raise(kind) ==
  /\ cpc' = "done"
  /\ returned' = [status |-> "raised", text |-> <<kind>>, absent |-> FALSE]
  /\ Shutdown

\* get_response is called; stdio_client(self.server) is entered.
StartSubprocess ==
  /\ cpc \in {"idle", "done"}
  /\ invocations < MaxInvocations
  /\ invocations' = invocations + 1
  /\ response' = "none" /\ parts' = <<>> /\ final_text' = <<>>
  /\ gen_calls' = 0 /\ tool_calls' = 0 /\ tool_results' = 0 /\ fn_parts' = 0
  /\ clog' = {}
  /\ \E launched \in BOOLEAN :
       IF launched
       THEN /\ cpc' = "started"
            /\ subprocess' = "running"
            /\ lifecycle' = <<"start">>
            /\ returned' = NotReturned
            /\ UNCHANGED client_session
       ELSE /\ cpc' = "done"
            /\ lifecycle' = <<>>
            /\ returned' = [status |-> "raised", text |-> <<"launch">>, absent |-> FALSE]
            /\ UNCHANGED <<subprocess, client_session>>
  /\ UNCHANGED <<outside, nonclient>>

\* ClientSession(read, write) is entered and mcp_client.initialize() awaited.
Handshake ==
  /\ cpc = "started"
  /\ \E ok \in BOOLEAN :
       IF ok
       THEN /\ cpc' = "initialized"
            /\ client_session' = "live"
            /\ lifecycle' = Append(lifecycle, "handshake")
            /\ UNCHANGED <<subprocess, returned>>
       ELSE Raise("handshake")
  /\ UNCHANGED <<response, parts, final_text, gen_calls, tool_calls, tool_results,
                 fn_parts, clog, outside, invocations, nonclient>>

\* mcp_session.list_tools(), the tool declarations, chats.create(...).
ListTools ==
  /\ cpc = "initialized"
  /\ \E step \in {"ok", "list_tools raises", "chats.create raises"} :
       IF step = "ok"
       THEN /\ cpc' = "chat"
            /\ lifecycle' = Append(lifecycle, "list_tools")
            /\ clog' = clog \cup {Log("info", "client")}
            /\ UNCHANGED <<subprocess, client_session, returned>>
       ELSE /\ Raise(step)
            /\ clog' = IF step = "list_tools raises" THEN clog
                       ELSE clog \cup {Log("info", "client")}
  /\ UNCHANGED <<response, parts, final_text, gen_calls, tool_calls, tool_results,
                 fn_parts, outside, invocations, nonclient>>

CountOf(kind, ps) == Cardinality({i \in DOMAIN ps : ps[i] = kind})

\* chat.send_message(prompt) and the head of _process_gemini_response.
SendMessage ==
  /\ cpc = "chat"
  /\ \E first \in FirstResponses :
       /\ response' = first.shape
       /\ gen_calls' = 1
       /\ lifecycle' = Append(lifecycle, "generate")
       /\ fn_parts' = CountOf("function_call", first.parts)
       /\ CASE first.shape = "raises" ->
                 /\ final_text' = <<T_ERROR>>
                 /\ clog' = clog \cup {Log("debug", "client"), Log("error", "none")}
                 /\ parts' = <<>> /\ cpc' = "return"
            [] first.shape = "parts_none" ->
                 /\ final_text' = <<T_ERROR>>
                 /\ clog' = clog \cup {Log("debug", "client"), Log("info", "none"),
                                       Log("error", "none")}
                 /\ parts' = <<>> /\ cpc' = "return"
            [] first.shape = "no_candidates" ->
                 /\ final_text' = <<T_NO_CANDIDATES>>
                 /\ clog' = clog \cup {Log("debug", "client"), Log("info", "none"),
                                       Log("warning", "none")}
                 /\ parts' = <<>> /\ cpc' = "return"
            [] first.shape = "no_content" ->
                 /\ final_text' = <<T_INCOMPLETE>>
                 /\ clog' = clog \cup {Log("debug", "client"), Log("info", "none"),
                                       Log("warning", "none")}
                 /\ parts' = <<>> /\ cpc' = "return"
            [] OTHER ->
                 /\ final_text' = <<>>
                 /\ clog' = clog \cup {Log("debug", "client"), Log("info", "none")}
                 /\ parts' = first.parts
                 /\ cpc' = "process"
  /\ UNCHANGED <<subprocess, client_session, tool_calls, tool_results, returned,
                 outside, invocations, nonclient>>

\* What _handle_tool_result appends for a follow-up response.
FollowUpText(followup) ==
  CASE followup = "text"          -> <<ANSWER>>
    [] followup = "empty_text"    -> <<T_NO_FOLLOWUP_TEXT>>
    [] followup = "no_candidates" -> <<T_NO_FOLLOWUP>>
    [] followup = "no_content"    -> <<>>
    [] OTHER                      -> <<T_FOLLOWUP_ERROR>>

\* Parts of a follow-up response that are processed like parts of the first
\* response: _handle_tool_result reads the text of the follow-up and nothing
\* else.
FollowUpPartsRequeued(followup) ==
  IF followup = "function_call" THEN <<"function_call">> ELSE <<>>
FollowUpParts(followup) == <<>>

\* One round of the loop over candidate.content.parts.
ProcessPart ==
  /\ cpc = "process" /\ parts # <<>>
  /\ LET part == Head(parts)
     IN  CASE part = "text" ->
                /\ final_text' = Append(final_text, ANSWER)
                /\ parts' = Tail(parts)
                /\ UNCHANGED <<gen_calls, tool_calls, tool_results, lifecycle, clog>>
           [] part = "nonstring_text" ->
                /\ final_text' = Append(final_text, NOT_A_STR)
                /\ parts' = Tail(parts)
                /\ UNCHANGED <<gen_calls, tool_calls, tool_results, lifecycle, clog>>
           [] part = "function_call" ->
                \E called \in BOOLEAN, followup \in FollowUps :
                  /\ tool_calls' = tool_calls + 1
                  /\ IF called
                     THEN /\ tool_results' = tool_results + 1
                          /\ gen_calls' = gen_calls + 1
                          /\ lifecycle' = lifecycle \o <<"call_tool", "generate">>
                          /\ final_text' = final_text \o <<T_NEED_CALL>> \o FollowUpText(followup)
                          /\ clog' = clog \cup {Log("debug", "function")}
                                       \cup IF followup \in {"raises", "text_none", "function_call"}
                                            THEN {Log("error", "none")} ELSE {}
                          /\ parts' = Tail(parts) \o FollowUpParts(followup)
                     ELSE /\ UNCHANGED <<tool_results, gen_calls>>
                          /\ lifecycle' = Append(lifecycle, "call_tool")
                          /\ final_text' = final_text \o <<T_NEED_CALL, T_TOOL_ERROR>>
                          /\ clog' = clog \cup {Log("debug", "function"), Log("error", "function")}
                          /\ parts' = Tail(parts)
           [] OTHER ->
                /\ parts' = Tail(parts)
                /\ UNCHANGED <<final_text, gen_calls, tool_calls, tool_results, lifecycle,
                               clog>>
  /\ cpc' = IF parts' = <<>> THEN "return" ELSE "process"
  /\ UNCHANGED <<subprocess, client_session, response, fn_parts, returned, outside,
                 invocations, nonclient>>

\* (a list of parts that is empty goes straight to the return)
ProcessNoParts ==
  /\ cpc = "process" /\ parts = <<>>
  /\ cpc' = "return"
  /\ UNCHANGED <<subprocess, client_session, response, parts, final_text, lifecycle,
                 gen_calls, tool_calls, tool_results, fn_parts, returned, clog,
                 outside, invocations, nonclient>>

\* return "\n".join(final_text), messages -- and the exit of the async with.
Return ==
  /\ cpc = "return"
  /\ cpc' = "done"
  /\ returned' = IF \E i \in DOMAIN final_text : final_text[i] = NOT_A_STR
                 THEN [status |-> "raised", text |-> <<"join">>, absent |-> FALSE]
                 ELSE [status |-> "returned", text |-> final_text, absent |-> FALSE]
  /\ Shutdown
  /\ UNCHANGED <<response, parts, final_text, gen_calls, tool_calls, tool_results,
                 fn_parts, clog, outside, invocations, nonclient>>

\* MCPClient.call_tool / list_tools, called while no get_response is running.
CallOutside ==
  /\ cpc \in {"idle", "done"}
  /\ outside' = IF client_session = "none" THEN "Client not initialized"
                ELSE "call on a closed session"
  /\ UNCHANGED <<cpc, subprocess, client_session, response, parts, final_text,
                 lifecycle, gen_calls, tool_calls, tool_results, fn_parts, returned,
                 clog, invocations, nonclient>>

ClientInit ==
  /\ ClientIdle
  /\ SaveIdle
  /\ LaunchIdle
  /\ TodoistIdle
  /\ BotIdle
  /\ OrderIdle
  /\ ScheduleIdle
  /\ RegistryIdle
  /\ DiaryIdle
  /\ existing_content = <<>>
  /\ new_diary_section = <<>>
  /\ merged = <<>>
  /\ remerged = <<>>
  /\ mstep = "idle"

ClientNext ==
  \/ StartSubprocess \/ Handshake \/ ListTools \/ SendMessage \/ ProcessPart
  \/ ProcessNoParts \/ Return \/ CallOutside

SpecClient == ClientInit /\ [][ClientNext]_vars

----------------------------------------------------------------------------
(* plugins/schedule.py: send_agenda                                        *)

WEATHER_FALLBACK == "No weather data available"
AGENDA_CAL_FALLBACK == "No calendar events scheduled for today"
AGENDA == "agenda"

\* PROMPT_TEMPLATE.format(weather_data=..., calendar_data=...), the two slots
AgendaPrompt(weather, calendar) ==
  <<"Weather Update:", NL>> \o weather
    \o <<NL, "Upcoming Calendar Events (next 24 hours):", NL>> \o calendar

\* context.job, job.data and job.chat_id: all there, or the first one missing.
Jobs ==
  { [job |-> TRUE, data |-> TRUE, chat_id |-> TRUE],
    [job |-> TRUE, data |-> TRUE, chat_id |-> FALSE],
    [job |-> TRUE, data |-> FALSE, chat_id |-> FALSE],
    [job |-> FALSE, data |-> FALSE, chat_id |-> FALSE] }

\* reload_config() returns or raises; each tool server behaves as one of
\* ToolModes; the final generate_content returns a response with text, with
\* "" as text, with text None, or raises.
AgendaEnvironments ==
  [registry : {"ok", "raises"}, weather : ToolModes, cal : ToolModes,
   final : {"text", "empty", "no_text", "raises"}]

\* `if not text` for response.text: None ("no_text") or "" ("empty").
NotTextNoneOnly(final) == final = "no_text"
NotText(final) == final \in {"empty", "no_text"}

AgendaEnded(status, cause) == [status |-> status, cause |-> cause]

ScheduleInit ==
  /\ spc = "idle"
  /\ job \in Jobs
  /\ agenda_env \in AgendaEnvironments
  /\ weather_data = NoneVal
  /\ agenda_calendar = NoneVal
  /\ agenda_prompt = <<>>
  /\ agenda_sent = <<>>
  /\ agenda_errors = {}
  /\ agenda_result = AgendaEnded("none", "none")
  /\ ClientIdle
  /\ SaveIdle
  /\ LaunchIdle
  /\ TodoistIdle
  /\ BotIdle
  /\ OrderIdle
  /\ RegistryIdle
  /\ DiaryIdle
  /\ existing_content = <<>>
  /\ new_diary_section = <<>>
  /\ merged = <<>>
  /\ remerged = <<>>
  /\ mstep = "idle"

\* The checks of context.job, then MCPConfigReader(settings).reload_config().
AgendaStart ==
  /\ spc = "idle"
  /\ IF ~job.job \/ ~job.data \/ ~job.chat_id
     THEN /\ spc' = "done"
          /\ agenda_result' = AgendaEnded("returned early",
                                IF ~job.job THEN "Job is missing"
                                ELSE IF ~job.data THEN "Job data is missing"
                                ELSE "Chat ID is missing")
     ELSE IF agenda_env.registry = "raises"
     THEN /\ spc' = "done"
          /\ agenda_result' = AgendaEnded("raised", "reload_config")
     ELSE /\ spc' = "weather"
          /\ UNCHANGED agenda_result
  /\ UNCHANGED <<job, agenda_env, weather_data, agenda_calendar, agenda_prompt,
                 agenda_sent, agenda_errors, nonschedule>>

\* Lines 84-100: the weather source.
AgendaFetchWeather ==
  /\ spc = "weather"
  /\ LET mode == agenda_env.weather
     IN  CASE mode \in {"unconfigured", "unresolved"} ->
                /\ agenda_errors' = agenda_errors \cup {"Weather MCP configuration not found"}
                /\ weather_data' = NoneVal
                /\ spc' = "calendar"
                /\ UNCHANGED agenda_result
           [] mode = "params_error" ->
                /\ spc' = "done"
                /\ agenda_result' = AgendaEnded("raised", "weather get_server_params")
                /\ UNCHANGED <<agenda_errors, weather_data>>
           [] mode = "invoke_error" ->
                /\ spc' = "done"
                /\ agenda_result' = AgendaEnded("raised", "weather get_response")
                /\ UNCHANGED <<agenda_errors, weather_data>>
           [] OTHER ->
                /\ weather_data' = ToolData(mode)
                /\ spc' = "calendar"
                /\ UNCHANGED <<agenda_errors, agenda_result>>
  /\ UNCHANGED <<job, agenda_env, agenda_calendar, agenda_prompt, agenda_sent,
                 nonschedule>>

\* Lines 102-121: the calendar source.
AgendaFetchCalendar ==
  /\ spc = "calendar"
  /\ LET mode == agenda_env.cal
     IN  CASE ~NameConfigured(mode) ->
                /\ agenda_calendar' = NoneVal
                /\ spc' = "generate"
                /\ UNCHANGED <<agenda_errors, agenda_result>>
           [] mode = "unresolved" ->
                /\ agenda_errors' = agenda_errors \cup {"Calendar MCP configuration not found"}
                /\ agenda_calendar' = NoneVal
                /\ spc' = "generate"
                /\ UNCHANGED agenda_result
           [] mode = "params_error" ->
                /\ spc' = "done"
                /\ agenda_result' = AgendaEnded("raised", "calendar get_server_params")
                /\ UNCHANGED <<agenda_errors, agenda_calendar>>
           [] mode = "invoke_error" ->
                /\ spc' = "done"
                /\ agenda_result' = AgendaEnded("raised", "calendar get_response")
                /\ UNCHANGED <<agenda_errors, agenda_calendar>>
           [] OTHER ->
                /\ agenda_calendar' = ToolData(mode)
                /\ spc' = "generate"
                /\ UNCHANGED <<agenda_errors, agenda_result>>
  /\ UNCHANGED <<job, agenda_env, weather_data, agenda_prompt, agenda_sent,
                 nonschedule>>

\* Lines 123-140: the prompt, the final generate_content, send_message.
AgendaGenerate ==
  /\ spc = "generate"
  /\ spc' = "done"
  /\ agenda_prompt' = AgendaPrompt(OrDefault(weather_data, <<WEATHER_FALLBACK>>),
                                   OrDefault(agenda_calendar, <<AGENDA_CAL_FALLBACK>>))
  /\ CASE agenda_env.final = "raises" ->
            /\ agenda_result' = AgendaEnded("raised", "generate_content")
            /\ UNCHANGED <<agenda_sent, agenda_errors>>
       [] NotText(agenda_env.final) ->
            /\ agenda_result' = AgendaEnded("raised", "Empty response from AI")
            /\ agenda_errors' = agenda_errors
                                  \cup {"Empty response from AI when generating agenda"}
            /\ UNCHANGED agenda_sent
       [] OTHER ->
            /\ agenda_result' = AgendaEnded("sent", "none")
            /\ agenda_sent' = <<AGENDA>>
            /\ UNCHANGED agenda_errors
  /\ UNCHANGED <<job, agenda_env, weather_data, agenda_calendar, nonschedule>>

ScheduleNext ==
  \/ AgendaStart \/ AgendaFetchWeather \/ AgendaFetchCalendar \/ AgendaGenerate

SpecSchedule == ScheduleInit /\ [][ScheduleNext]_vars

----------------------------------------------------------------------------
(* plugins/diary.py generate_diary_entry (lines 114-160) and               *)
(* update_diary.py main (lines 422-435): the tool invocations, await by    *)
(* await                                                                    *)

\* The modes in which get_response is reached, so that a tool invocation is
\* issued.
Invokes(mode) == mode \in {"invoke_error", "no_text", "empty", "text", "heading_text"}

\* One run: the job (no flags) or the script with --no-calendar / --no-tasks.
OrderRuns ==
  { r \in [program : {"job", "script"}, cal : ToolModes, tasks : ToolModes,
           no_calendar : BOOLEAN, no_tasks : BOOLEAN] :
      r.program = "job" => ~r.no_calendar /\ ~r.no_tasks }

OrderInit ==
  /\ order_run \in OrderRuns
  /\ cal_call = "pending"
  /\ tasks_call = "pending"
  /\ call_events = <<>>
  /\ template_rendered = FALSE
  /\ ScheduleIdle
  /\ ClientIdle
  /\ SaveIdle
  /\ LaunchIdle
  /\ TodoistIdle
  /\ BotIdle
  /\ RegistryIdle
  /\ DiaryIdle
  /\ existing_content = <<>>
  /\ new_diary_section = <<>>
  /\ merged = <<>>
  /\ remerged = <<>>
  /\ mstep = "idle"

\* `await` of the calendar get_response has returned or raised (or the
\* source was passed over) before the statement after it runs.
AwaitedAlways(call) == TRUE
Awaited(call) == call \in {"done", "failed", "skipped"}

\* The calendar source: passed over, or get_response is awaited.
IssueCalendar ==
  /\ cal_call = "pending"
  /\ IF order_run.no_calendar \/ ~Invokes(order_run.cal)
     THEN cal_call' = "skipped" /\ UNCHANGED call_events
     ELSE cal_call' = "in_flight" /\ call_events' = Append(call_events, "issue calendar")
  /\ UNCHANGED <<order_run, tasks_call, template_rendered, nonorder>>

\* The awaited calendar get_response returns, or raises into the except.
CompleteCalendar ==
  /\ cal_call = "in_flight"
  /\ cal_call' = IF order_run.cal = "invoke_error" THEN "failed" ELSE "done"
  /\ call_events' = Append(call_events, "end calendar")
  /\ UNCHANGED <<order_run, tasks_call, template_rendered, nonorder>>

\* The task source, the statement after the calendar block.
IssueTasks ==
  /\ tasks_call = "pending"
  /\ Awaited(cal_call)
  /\ IF order_run.no_tasks \/ ~Invokes(order_run.tasks)
     THEN tasks_call' = "skipped" /\ UNCHANGED call_events
     ELSE tasks_call' = "in_flight" /\ call_events' = Append(call_events, "issue tasks")
  /\ UNCHANGED <<order_run, cal_call, template_rendered, nonorder>>

CompleteTasks ==
  /\ tasks_call = "in_flight"
  /\ tasks_call' = IF order_run.tasks = "invoke_error" THEN "failed" ELSE "done"
  /\ call_events' = Append(call_events, "end tasks")
  /\ UNCHANGED <<order_run, cal_call, template_rendered, nonorder>>

\* DIARY_PROMPT_TEMPLATE.format(...) / create_diary_entry(...), the statement
\* after the task block.
RenderTemplate ==
  /\ ~template_rendered
  /\ Awaited(cal_call) /\ Awaited(tasks_call)
  /\ template_rendered' = TRUE
  /\ call_events' = Append(call_events, "render")
  /\ UNCHANGED <<order_run, cal_call, tasks_call, nonorder>>

OrderNext ==
  \/ IssueCalendar \/ CompleteCalendar \/ IssueTasks \/ CompleteTasks
  \/ RenderTemplate

SpecOrder == OrderInit /\ [][OrderNext]_vars

----------------------------------------------------------------------------
(* main.py USER_FILTER, telega/settings.py, telega/main.py: handlers       *)

COMMA == ","

\* str.split(","): the pieces between the commas; "" gives [""].
RECURSIVE SplitComma(_, _)
SplitComma(s, piece) ==
  IF s = <<>> THEN <<piece>>
  ELSE IF Head(s) = COMMA THEN <<piece>> \o SplitComma(Tail(s), <<>>)
  ELSE SplitComma(Tail(s), Append(piece, Head(s)))

\* main.py line 88: os.environ.get("USER_FILTER", "").split(",")
USER_FILTER(environ) == SplitComma(IF environ = NoneVal THEN <<>> ELSE environ, <<>>)

\* Settings.__init__ line 69: user_filter or []
SettingsUserFilter(given) == IF given = <<>> THEN <<>> ELSE given

\* `username not in self.settings.user_filter`
NotListedNever(username, filter) == FALSE
NotListed(username, filter) == ~\E i \in DOMAIN filter : filter[i] = username

\* Telega.is_user_allowed
is_user_allowed(filter, update) ==
  IF filter = <<>> THEN TRUE
  ELSE IF ~update.user THEN FALSE
  ELSE IF NotListed(update.username, filter) THEN FALSE
  ELSE TRUE

\* Values of USER_FILTER in the environment: unset, "", one name, two names.
FilterSettings ==
  { NoneVal, <<>>, <<"alice">>, <<"alice", COMMA, "bob">> }

\* Updates: no effective user, a user without username, or a named user;
\* with a text message with or without command arguments, a photo, or no
\* message.
Updates ==
  { u \in [user : BOOLEAN, username : {NoneVal, <<"alice">>, <<"bob">>, <<"mallory">>},
           message : {"text", "photo", "none"}, args : BOOLEAN] :
      /\ ~u.user => u.username = NoneVal
      /\ u.args => u.message = "text" }

NoEffects ==
  [replied |-> FALSE, reloaded |-> FALSE, model_called |-> FALSE, tool_called |-> FALSE]
Effects(replied, reloaded, model_called, tool_called) ==
  [replied |-> replied, reloaded |-> reloaded, model_called |-> model_called,
   tool_called |-> tool_called]

BotInit ==
  /\ user_filter_env \in FilterSettings
  /\ user_filter = SettingsUserFilter(USER_FILTER(user_filter_env))
  /\ bot_update = [user |-> FALSE, username |-> NoneVal, message |-> "none", args |-> FALSE]
  /\ bot_handler = "none"
  /\ bot_allowed = FALSE
  /\ bot_effects = NoEffects
  /\ bot_handled = 0
  /\ OrderIdle
  /\ ScheduleIdle
  /\ ClientIdle
  /\ SaveIdle
  /\ LaunchIdle
  /\ TodoistIdle
  /\ RegistryIdle
  /\ DiaryIdle
  /\ existing_content = <<>>
  /\ new_diary_section = <<>>
  /\ merged = <<>>
  /\ remerged = <<>>
  /\ mstep = "idle"

\* A handler is called with update u; `effects` is what its body does once
\* the sender is let through.
Handled(handler, u, allowed, effects) ==
  /\ bot_handled < MaxUpdates
  /\ bot_handled' = bot_handled + 1
  /\ bot_handler' = handler
  /\ bot_update' = u
  /\ bot_allowed' = allowed
  /\ bot_effects' = effects
  /\ UNCHANGED <<user_filter_env, user_filter, nonbot>>

\* handle_photo_message, lines 123-174: the message check comes first.
HandlePhoto ==
  \E u \in Updates, downloaded \in BOOLEAN :
    IF u.message # "photo"
    THEN Handled("photo", u, FALSE, NoEffects)
    ELSE LET allowed == is_user_allowed(user_filter, u)
         IN  Handled("photo", u, allowed,
               IF ~allowed THEN NoEffects
               ELSE IF ~downloaded THEN Effects(TRUE, FALSE, FALSE, FALSE)
               ELSE Effects(TRUE, FALSE, TRUE, FALSE))

\* handle_list_mcps_message, lines 176-209.
HandleListMcps ==
  \E u \in Updates :
    /\ bot_handled < MaxUpdates
    /\ LET allowed == is_user_allowed(user_filter, u)
       IN  Handled("list_mcps", u, allowed,
             IF ~allowed \/ u.message = "none" THEN NoEffects
             ELSE Effects(TRUE, FALSE, FALSE, FALSE))

\* handle_mcp_message, lines 211-266.
HandleMcp ==
  \E u \in Updates, step \in {"reload raises", "not found", "params raise", "invoked"} :
    /\ bot_handled < MaxUpdates
    /\ LET allowed == is_user_allowed(user_filter, u)
       IN  Handled("mcp", u, allowed,
             IF ~allowed \/ u.message # "text" \/ ~u.args THEN NoEffects
             ELSE IF step = "invoked" THEN Effects(TRUE, TRUE, TRUE, TRUE)
             ELSE Effects(TRUE, TRUE, FALSE, FALSE))

\* handle_text_message, lines 268-330.
HandleText ==
  \E u \in Updates :
    /\ bot_handled < MaxUpdates
    /\ LET allowed == is_user_allowed(user_filter, u)
       IN  Handled("text", u, allowed,
             IF ~allowed \/ u.message # "text" THEN NoEffects
             ELSE Effects(TRUE, FALSE, TRUE, FALSE))

\* handle_diary_command, lines 332-367.
HandleDiary ==
  \E u \in Updates, generated \in BOOLEAN, tools \in BOOLEAN :
    /\ bot_handled < MaxUpdates
    /\ LET allowed == is_user_allowed(user_filter, u)
       IN  Handled("diary", u, allowed,
             IF ~allowed \/ u.message = "none" THEN NoEffects
             ELSE Effects(TRUE, TRUE, generated, generated /\ tools))

\* handle_rag_request, lines 369-404.
HandleRag ==
  \E u \in Updates, qa_chain \in BOOLEAN :
    /\ bot_handled < MaxUpdates
    /\ LET allowed == is_user_allowed(user_filter, u)
       IN  Handled("rag", u, allowed,
             IF ~allowed \/ u.message # "text" \/ ~qa_chain THEN NoEffects
             ELSE Effects(TRUE, FALSE, TRUE, FALSE))

BotNext ==
  \/ HandlePhoto \/ HandleListMcps \/ HandleMcp \/ HandleText \/ HandleDiary
  \/ HandleRag

SpecBot == BotInit /\ [][BotNext]_vars

----------------------------------------------------------------------------
(* utils/todoist.py: ObsidianExporter and the scan of the exported notes.  *)
(* A file is a sequence of lines, a line a sequence of tokens.             *)

DQ == "\""
RULE == "---"
TaskIds == {"1", "2"}
Dates == {"d1", "d2"}

\* The string "" and a file that is not there.
EmptyString == << <<>> >>
Absent == [exists |-> FALSE, lines |-> EmptyString]
File(lines) == [exists |-> TRUE, lines |-> lines]

\* a + b for two strings given as their lines
StrCat(a, b) ==
  SubSeq(a, 1, Len(a) - 1) \o <<a[Len(a)] \o b[1]>> \o Tail(b)

\* Tasks as the API returns them: completed ones may carry completed_date;
\* the description is absent, one line, or has a markdown rule in it.
Tasks ==
  { t \in [id : TaskIds, is_completed : BOOLEAN,
           completed_date : {"none"} \cup Dates,
           description : {"none", "rule"}] :
      t.completed_date # "none" => t.is_completed }

\* No export has written the file.
NoTask ==
  [id |-> "none", is_completed |-> FALSE, completed_date |-> "none", description |-> "none"]

\* format_frontmatter, as "\n".join(frontmatter): the lines with the keys
\* the scan reads, completed and completed_date.
format_frontmatter(task) ==
  << <<RULE>>,
     <<"title:", DQ, "T", DQ>>,
     <<"todoist_id:", DQ, task.id, DQ>>,
     <<"project:", DQ, "P", DQ>>,
     <<"completed:", IF task.is_completed THEN "true" ELSE "false">> >>
    \o (IF task.completed_date # "none"
        THEN << <<"completed_date:", DQ, task.completed_date, DQ>> >>
        ELSE <<>>)
    \o << <<RULE>>, <<>> >>

\* format_task_content without subtasks and comments
format_task_content(task) ==
  format_frontmatter(task)
    \o << <<"#", IF task.is_completed THEN "done" ELSE "open", "T">>, <<>> >>
    \o (IF task.description = "rule"
        THEN << <<"## Description">>, <<>>, <<"a">>, <<RULE>>, <<"b">>, <<>> >>
        ELSE <<>>)

\* Indices of the lines whose strip() is "---"
Separators(lines) == {i \in DOMAIN lines : Strip(lines[i]) = <<RULE>>}

\* The n-th smallest element of a set of indices
RECURSIVE Nth(_, _)
Nth(S, n) ==
  LET least == CHOOSE i \in S : \A j \in S : i <= j
  IN  IF n = 1 THEN least ELSE Nth(S \ {least}, n - 1)

\* lines[user_content_start:] of export_task
UserLines(lines) ==
  IF Cardinality(Separators(lines)) >= 3
  THEN SubSeq(lines, Nth(Separators(lines), 3) + 1, Len(lines))
  ELSE <<>>

\* "\n\n---\n\n" + "\n".join(user_lines) of export_task
Kept(user_lines) == StrCat(<< <<>>, <<>>, <<RULE>>, <<>>, <<>> >>, user_lines)

\* existing_user_content of export_task
existing_user_content(file) ==
  IF ~file.exists THEN EmptyString
  ELSE LET user_lines == UserLines(file.lines)
       IN  IF user_lines # <<>> /\ \E i \in DOMAIN user_lines : Strip(user_lines[i]) # <<>>
           THEN Kept(user_lines)
           ELSE EmptyString

\* ObsidianExporter.export_task: the file afterwards
export_task(task, file, with_completed) ==
  IF task.is_completed /\ ~with_completed THEN file
  ELSE File(StrCat(format_task_content(task), existing_user_content(file)))

\* re.search(r'^key: "(.+)"$', content, re.MULTILINE): the group of the
\* first line that matches, or NoneVal
Matches(line, key) ==
  Len(line) >= 4 /\ line[1] = key /\ line[2] = DQ /\ line[Len(line)] = DQ
FrontmatterValue(lines, key) ==
  IF \E i \in DOMAIN lines : Matches(lines[i], key)
  THEN LET first == CHOOSE i \in DOMAIN lines :
                      Matches(lines[i], key) /\ \A j \in DOMAIN lines : Matches(lines[j], key) => i <= j
       IN  SubSeq(lines[first], 3, Len(lines[first]) - 1)
  ELSE NoneVal

\* parse_todoist_frontmatter: title, todoist_id and the "completed" group
parse_todoist_frontmatter(lines) ==
  LET title == FrontmatterValue(lines, "title:")
      todoist_id == FrontmatterValue(lines, "todoist_id:")
  IN  IF title = NoneVal \/ todoist_id = NoneVal
      THEN [title |-> NoneVal, todoist_id |-> NoneVal, completed_date |-> NoneVal]
      ELSE [title |-> title, todoist_id |-> todoist_id,
            completed_date |-> FrontmatterValue(lines, "completed:")]

\* datetime.fromisoformat(s).date() succeeds
IsIsoDate(value) == Len(value) = 1 /\ value[1] \in Dates

\* scan_todoist_completed_tasks_today: the files it lists
ScanListed(files, today) ==
  { id \in TaskIds :
      /\ files[id].exists
      /\ files[id].lines # EmptyString
      /\ LET parsed == parse_todoist_frontmatter(files[id].lines)
         IN  /\ parsed.title # NoneVal
             /\ parsed.completed_date # NoneVal
             /\ IsIsoDate(parsed.completed_date)
             /\ parsed.completed_date[1] = today }

scan_todoist_completed_tasks_today(files, today) ==
  [done |-> TRUE, today |-> today, listed |-> ScanListed(files, today),
   folder |-> files,
   text |-> IF \A id \in TaskIds : ~files[id].exists THEN "Todoist folder not found"
            ELSE IF ScanListed(files, today) = {} THEN "No tasks completed today"
            ELSE "tasks by project"]

NotScanned ==
  [done |-> FALSE, today |-> "d1", listed |-> {}, text |-> "none",
   folder |-> [id \in TaskIds |-> Absent]]

\* A note whose frontmatter has the line the scan's pattern reads,
\* completed: "<date>".
PlacedNote(id, date) ==
  << <<RULE>>,
     <<"title:", DQ, "T", DQ>>,
     <<"todoist_id:", DQ, id, DQ>>,
     <<"completed:", DQ, date, DQ>>,
     <<RULE>>, <<>> >>

\* What a user appends to a note: a rule and a note after blank lines, right
\* at the end of the text, or a note that itself starts with a blank line.
UserTexts ==
  { << <<>>, <<>>, <<RULE>>, <<>>, <<"note">> >>,
    << <<RULE>>, <<"note">> >> }

TodoistInit ==
  /\ include_completed \in BOOLEAN
  /\ todoist_files = [id \in TaskIds |-> Absent]
  /\ exported_data = [id \in TaskIds |-> NoTask]
  /\ last_export = [id |-> "none", unchanged_data |-> FALSE, before |-> Absent,
                    after |-> Absent]
  /\ scan = NotScanned
  /\ todoist_steps = 0
  /\ BotIdle
  /\ OrderIdle
  /\ ScheduleIdle
  /\ ClientIdle
  /\ SaveIdle
  /\ LaunchIdle
  /\ RegistryIdle
  /\ DiaryIdle
  /\ existing_content = <<>>
  /\ new_diary_section = <<>>
  /\ merged = <<>>
  /\ remerged = <<>>
  /\ mstep = "idle"

\* export_task(task, project) for a task of the account.
ExportTask ==
  \E task \in Tasks :
    /\ todoist_steps < MaxExports
    /\ todoist_steps' = todoist_steps + 1
    /\ LET before == todoist_files[task.id]
           after == export_task(task, before, include_completed)
       IN  /\ todoist_files' = [todoist_files EXCEPT ![task.id] = after]
           /\ last_export' = [id |-> task.id,
                              unchanged_data |-> exported_data[task.id] = task,
                              before |-> before, after |-> after]
           /\ exported_data' = IF task.is_completed /\ ~include_completed
                               THEN exported_data
                               ELSE [exported_data EXCEPT ![task.id] = task]
    /\ UNCHANGED <<include_completed, scan, nontodoist>>

\* The user writes below an exported note.
UserAppends ==
  \E id \in TaskIds, text \in UserTexts :
    /\ todoist_steps < MaxExports
    /\ todoist_files[id].exists
    /\ Cardinality(Separators(todoist_files[id].lines)) = 2
    /\ todoist_steps' = todoist_steps + 1
    /\ todoist_files' =
         [todoist_files EXCEPT ![id] = File(StrCat(todoist_files[id].lines, text))]
    /\ UNCHANGED <<include_completed, exported_data, last_export, scan, nontodoist>>

\* A note that no export wrote is put into the folder.
PlaceNote ==
  \E id \in TaskIds, date \in Dates \cup {"true"} :
    /\ todoist_steps < MaxExports
    /\ ~todoist_files[id].exists
    /\ todoist_steps' = todoist_steps + 1
    /\ todoist_files' = [todoist_files EXCEPT ![id] = File(PlacedNote(id, date))]
    /\ UNCHANGED <<include_completed, exported_data, last_export, scan, nontodoist>>

\* scan_todoist_completed_tasks_today(folder, today)
Scan ==
  \E today \in Dates :
    /\ scan' = scan_todoist_completed_tasks_today(todoist_files, today)
    /\ UNCHANGED <<include_completed, todoist_files, exported_data, last_export,
                   todoist_steps, nontodoist>>

TodoistNext == ExportTask \/ UserAppends \/ PlaceNote \/ Scan

SpecTodoist == TodoistInit /\ [][TodoistNext]_vars

----------------------------------------------------------------------------
(* Who launches a tool server: the command handlers main.py registers, the *)
(* diary run and the agenda run, each through get_mcp_configuration(name). *)

\* settings.agenda_mcp_calendar_name, agenda_mcp_todoist_name,
\* agenda_mcp_weather_name
ServerNames == {"calendar", "todoist", "weather"}

\* MCPConfigReader.get_enabled_mcps() after a reload of the file
get_enabled_mcps(file) == {n \in ServerNames : file[n] = "enabled"}

\* MCPConfigReader.get_mcp_configuration(name) after a reload of the file:
\* the entry, with its enabled flag, or NoneVal
get_mcp_configuration(file, name) ==
  IF file[name] = "absent" THEN NoneVal ELSE <<name, file[name]>>

\* `if mcp_config:` followed by get_server_params() and MCPClient(...):
\* the launches a caller makes for the names it looks up
Launched(file, names, caller) ==
  { [name |-> n, state |-> file[n], by |-> caller] :
      n \in {x \in names : get_mcp_configuration(file, x) # NoneVal} }

LaunchInit ==
  /\ launch_config \in [ServerNames -> {"absent", "enabled", "disabled"}]
  /\ handlers = {}
  /\ bot_started = FALSE
  /\ launches = {}
  /\ launch_steps = 0
  /\ TodoistIdle
  /\ BotIdle
  /\ OrderIdle
  /\ ScheduleIdle
  /\ ClientIdle
  /\ SaveIdle
  /\ RegistryIdle
  /\ DiaryIdle
  /\ existing_content = <<>>
  /\ new_diary_section = <<>>
  /\ merged = <<>>
  /\ remerged = <<>>
  /\ mstep = "idle"

\* main.py: reload_config(), then a CommandHandler for each enabled entry
RegisterHandlers ==
  /\ ~bot_started
  /\ bot_started' = TRUE
  /\ handlers' = get_enabled_mcps(launch_config)
  /\ UNCHANGED <<launch_config, launches, launch_steps, nonlaunch>>

\* The configuration file is edited: an entry is enabled, disabled or removed.
EditConfig ==
  \E n \in ServerNames, state \in {"absent", "enabled", "disabled"} :
    /\ launch_steps < MaxLaunchSteps
    /\ launch_config[n] # state
    /\ launch_steps' = launch_steps + 1
    /\ launch_config' = [launch_config EXCEPT ![n] = state]
    /\ UNCHANGED <<handlers, bot_started, launches, nonlaunch>>

\* Telega.handle_mcp_message for /<tool_name> from an allowed user: the
\* dispatcher calls it for the registered commands only.
HandleMcpMessage ==
  \E tool_name \in handlers :
    /\ launch_steps < MaxLaunchSteps
    /\ bot_started
    /\ launch_steps' = launch_steps + 1
    /\ launches' = launches \cup Launched(launch_config, {tool_name}, "chat")
    /\ UNCHANGED <<launch_config, handlers, bot_started, nonlaunch>>

\* generate_diary_entry: the calendar and the task server
GenerateDiaryEntry ==
  /\ launch_steps < MaxLaunchSteps
  /\ launch_steps' = launch_steps + 1
  /\ launches' = launches \cup Launched(launch_config, {"calendar", "todoist"}, "diary")
  /\ UNCHANGED <<launch_config, handlers, bot_started, nonlaunch>>

\* send_agenda: the weather and the calendar server
SendAgenda ==
  /\ launch_steps < MaxLaunchSteps
  /\ launch_steps' = launch_steps + 1
  /\ launches' = launches \cup Launched(launch_config, {"weather", "calendar"}, "schedule")
  /\ UNCHANGED <<launch_config, handlers, bot_started, nonlaunch>>

LaunchNext ==
  RegisterHandlers \/ EditConfig \/ HandleMcpMessage \/ GenerateDiaryEntry \/ SendAgenda

SpecLaunch == LaunchInit /\ [][LaunchNext]_vars

----------------------------------------------------------------------------
(* update_diary.py: save_diary_entry run by two processes on one note file *)

Savers == {"a", "b"}

\* The note before the runs: absent, or a note with a section of the user
\* and, before or after it, an older diary section.
SavedNotes ==
  { NoFile,
    JoinLines(<< <<HEADING_B>>, <<"x">> >>),
    JoinLines(<< <<HEADING_B>>, <<"x">>, <<>>, <<DIARY>>, <<"old">> >>),
    JoinLines(<< <<DIARY>>, <<"old">>, <<>>, <<HEADING_B>>, <<"x">> >>) }

\* The diary_content of a run
DiaryContents ==
  { JoinLines(<< <<DIARY>>, <<"y">> >>), JoinLines(<< <<DIARY>>, <<"z">> >>) }

SaveInit ==
  /\ shared_note \in SavedNotes
  /\ original_note = shared_note
  /\ saver_pc = [p \in Savers |-> "start"]
  /\ saver_force \in [Savers -> BOOLEAN]
  /\ saver_content \in [Savers -> DiaryContents]
  /\ saver_updated = [p \in Savers |-> <<>>]
  /\ LaunchIdle
  /\ TodoistIdle
  /\ BotIdle
  /\ OrderIdle
  /\ ScheduleIdle
  /\ ClientIdle
  /\ RegistryIdle
  /\ DiaryIdle
  /\ existing_content = <<>>
  /\ new_diary_section = <<>>
  /\ merged = <<>>
  /\ remerged = <<>>
  /\ mstep = "idle"

\* lines 346-350: the file exists and force is not set
Refuse(p) ==
  /\ saver_pc[p] = "start"
  /\ shared_note # NoFile
  /\ ~saver_force[p]
  /\ saver_pc' = [saver_pc EXCEPT ![p] = "refused"]
  /\ UNCHANGED <<shared_note, original_note, saver_force, saver_content, saver_updated,
                 nonsave>>

\* lines 345-360: existing_content is "" or what the file holds now, then
\* updated_content = replace_diary_section(existing_content, diary_content)
Load(p) ==
  /\ saver_pc[p] = "start"
  /\ shared_note # NoFile => saver_force[p]
  /\ saver_pc' = [saver_pc EXCEPT ![p] = "loaded"]
  /\ saver_updated' =
       [saver_updated EXCEPT ![p] =
          replace_diary_section(IF shared_note = NoFile THEN <<>> ELSE shared_note,
                                saver_content[p])]
  /\ UNCHANGED <<shared_note, original_note, saver_force, saver_content, nonsave>>

\* line 364: open(file_path, "w") creates the file or truncates it
OpenForWrite(p) ==
  /\ saver_pc[p] = "loaded"
  /\ saver_pc' = [saver_pc EXCEPT ![p] = "opened"]
  /\ shared_note' = <<>>
  /\ UNCHANGED <<original_note, saver_force, saver_content, saver_updated, nonsave>>

\* lines 365-367: file.write(updated_content) and the close
Write(p) ==
  /\ saver_pc[p] = "opened"
  /\ saver_pc' = [saver_pc EXCEPT ![p] = "done"]
  /\ shared_note' = saver_updated[p]
  /\ UNCHANGED <<original_note, saver_force, saver_content, saver_updated, nonsave>>

SaveNext ==
  \E p \in Savers : Refuse(p) \/ Load(p) \/ OpenForWrite(p) \/ Write(p)

SpecSave == SaveInit /\ [][SaveNext]_vars

----------------------------------------------------------------------------
(* Properties of replace_diary_section (SpecMerge)                         *)

Min(S) == CHOOSE m \in S : \A n \in S : m <= n

DocLines == SplitLines(existing_content)
NewLines == SplitLines(Strip(new_diary_section))
OutLines == SplitLines(merged)

HasDiaryHeading(doc) ==
  \E i \in 1..Len(SplitLines(doc)) : IsDiaryHeading(SplitLines(doc)[i])

\* A new section that is one diary section: its trimmed text opens with
\* the "## Diary" heading line and has no further line that is a "## Diary"
\* heading or starts with "## ".
IsDiarySection(sec) ==
  LET sl == SplitLines(Strip(sec))
  IN  /\ IsDiaryHeading(sl[1])
      /\ \A k \in 2..Len(sl) : ~IsDiaryHeading(sl[k]) /\ ~StartsWithH2(sl[k])

\* C1 as stated: for all documents D and all new sections S, merging S a
\* second time yields the same document as merging it once.
C1_IdempotentForAllSections ==
  mstep = "remerged" => remerged = merged

\* C1 (amended): for all documents D and every new section S that is one
\* diary section (opens with the "## Diary" heading, no other level-2
\* heading line), merging S twice yields the same document as merging once.
C1_IdempotentForDiarySections ==
  (mstep = "remerged" /\ IsDiarySection(new_diary_section)) => remerged = merged

C1_Witness ==
  /\ mstep = "remerged"
  /\ IsDiarySection(new_diary_section)
  /\ HasDiaryHeading(existing_content)
  /\ merged # existing_content
  /\ remerged = merged

\* The claim's section delimiter: a line whose trimmed content is a
\* level-2 heading.
TrimmedH2(line) == StartsWithH2(Strip(line))

RECURSIVE DropTrailingEmpty(_)
DropTrailingEmpty(ls) ==
  IF ls # <<>> /\ ls[Len(ls)] = <<>>
  THEN DropTrailingEmpty(SubSeq(ls, 1, Len(ls) - 1))
  ELSE ls

\* The section opened by the heading at line i: that line and the lines up
\* to the next delimiter, without the empty lines that separate it from
\* what follows.
SectionAt(lines, i) ==
  LET later == { j \in (i + 1)..Len(lines) : TrimmedH2(lines[j]) }
      last  == IF later = {} THEN Len(lines) ELSE Min(later) - 1
  IN  DropTrailingEmpty(SubSeq(lines, i, last))

RECURSIVE ForeignFrom(_, _)
ForeignFrom(lines, i) ==
  IF i > Len(lines) THEN <<>>
  ELSE IF TrimmedH2(lines[i]) /\ ~IsDiaryHeading(lines[i])
       THEN <<SectionAt(lines, i)>> \o ForeignFrom(lines, i + 1)
       ELSE ForeignFrom(lines, i + 1)

\* The sections other than the diary section, in document order.
ForeignSections(doc) == ForeignFrom(SplitLines(doc), 1)

RECURSIVE IsSubsequence(_, _)
IsSubsequence(a, b) ==
  IF a = <<>> THEN TRUE
  ELSE IF b = <<>> THEN FALSE
  ELSE IF Head(a) = Head(b) THEN IsSubsequence(Tail(a), Tail(b))
  ELSE IsSubsequence(a, Tail(b))

\* C2: with sections delimited by lines whose trimmed content is a level-2
\* heading, merging a diary section leaves every section other than the
\* diary section byte-identical and in the same relative order.
C2_ForeignSectionsPreserved ==
  (mstep # "input" /\ IsDiarySection(new_diary_section))
    => IsSubsequence(ForeignSections(existing_content), ForeignSections(merged))

\* C3, common part: the lines before the first "## Diary" line are kept and
\* the trimmed lines of the new section stand in place of that line.
FirstDiary == Min({ i \in 1..Len(DocLines) : IsDiaryHeading(DocLines[i]) })

C3_ReplacedInPlace ==
  LET i == FirstDiary
      n == Len(NewLines)
  IN  /\ Len(OutLines) >= i - 1 + n
      /\ SubSeq(OutLines, 1, i - 1) = SubSeq(DocLines, 1, i - 1)
      /\ SubSeq(OutLines, i, i + n - 1) = NewLines

\* C3 as stated (for a new section that is one diary section): everything
\* after the "## Diary" line is dropped up to the next line that is a
\* level-2 heading, exactly one blank line is emitted immediately before
\* that heading, and when no heading follows the output ends with the new
\* section.
C3_BlankBeforeNextHeading ==
  (/\ mstep # "input"
   /\ HasDiaryHeading(existing_content)
   /\ IsDiarySection(new_diary_section)) =>
    LET i == FirstDiary
        n == Len(NewLines)
        next == { j \in (i + 1)..Len(DocLines) : StartsWithH2(DocLines[j]) }
    IN  /\ C3_ReplacedInPlace
        /\ IF next = {}
           THEN Len(OutLines) = i - 1 + n
           ELSE /\ Len(OutLines) >= i + n + 1
                /\ OutLines[i + n] = <<>>
                /\ OutLines[i + n + 1] = DocLines[Min(next)]

\* C3 (amended): everything after the "## Diary" line is dropped up to the
\* next line that starts with "## " or is itself a "## Diary" line; before a
\* heading other than "## Diary" exactly one blank line is emitted, a
\* further "## Diary" line is replaced by another copy of the new section
\* with no blank line, and when no such line follows the output ends with
\* the new section.
C3_SectionReplaced ==
  (mstep # "input" /\ HasDiaryHeading(existing_content)) =>
    LET i == FirstDiary
        n == Len(NewLines)
        next == { j \in (i + 1)..Len(DocLines) :
                    StartsWithH2(DocLines[j]) \/ IsDiaryHeading(DocLines[j]) }
    IN  /\ C3_ReplacedInPlace
        /\ IF next = {}
           THEN Len(OutLines) = i - 1 + n
           ELSE IF IsDiaryHeading(DocLines[Min(next)])
           THEN /\ Len(OutLines) >= i - 1 + 2 * n
                /\ SubSeq(OutLines, i + n, i + 2 * n - 1) = NewLines
           ELSE /\ Len(OutLines) >= i + n + 1
                /\ OutLines[i + n] = <<>>
                /\ OutLines[i + n + 1] = DocLines[Min(next)]

\* An old body line is dropped and a foreign heading follows the section.
C3_Witness ==
  /\ mstep # "input"
  /\ HasDiaryHeading(existing_content)
  /\ IsDiarySection(new_diary_section)
  /\ Len(DocLines) = 3
  /\ DocLines[2] = <<"x">>
  /\ DocLines[3] = <<HEADING_B>>
  /\ OutLines = NewLines \o << <<>>, <<HEADING_B>> >>

\* C4: a document that is not whitespace-only and has no "## Diary" line is
\* kept as an unmodified prefix, followed by exactly one blank line and the
\* trimmed new section.
C4_AppendWhenAbsent ==
  (/\ mstep # "input"
   /\ Strip(existing_content) # <<>>
   /\ ~HasDiaryHeading(existing_content))
    => merged = existing_content \o <<NL, NL>> \o Strip(new_diary_section)

C4_Witness ==
  /\ mstep # "input"
  /\ ~HasDiaryHeading(existing_content)
  /\ \E i \in 1..Len(DocLines) : DocLines[i] = <<HEADING_B>>
  /\ IsDiarySection(new_diary_section)
  /\ Len(merged) = Len(existing_content) + 2 + Len(Strip(new_diary_section))

\* C5: for an empty or whitespace-only document the result is exactly the
\* new section with leading and trailing whitespace trimmed.
C5_EmptyDocument ==
  (mstep # "input" /\ Strip(existing_content) = <<>>)
    => merged = Strip(new_diary_section)

C5_Witness ==
  /\ mstep # "input"
  /\ existing_content # <<>>
  /\ Strip(existing_content) = <<>>
  /\ new_diary_section # Strip(new_diary_section)
  /\ merged = Strip(new_diary_section)
  /\ merged # <<>>

----------------------------------------------------------------------------
(* Properties of the diary runs (SpecDiary)                                *)

Contains(text, token) == \E i \in DOMAIN text : text[i] = token

ScriptRerun ==
  /\ pc = "done" /\ entry = "script" /\ result.saved /\ args.force
  /\ prev.saved /\ prev.entry = "script"
  /\ prev.no_calendar = args.no_calendar /\ prev.no_tasks = args.no_tasks

\* C6: with the tool responses fixed, a forced save that follows a save of
\* the same command leaves the note file exactly as the earlier save left it.
C6_RerunLeavesNoteUnchanged == ScriptRerun => note = note_at_start

\* The ways a source can be absent or failing.
FailingModes ==
  { "unconfigured", "unresolved", "params_error", "invoke_error", "no_text", "empty" }

CalendarAbsent == env.cal \in FailingModes
TasksAbsent == env.tasks \in FailingModes

\* The run got as far as rendering, so nothing but the sources had failed.
Rendered == pc = "done" /\ entry \in {"script", "job"} /\ rendered # NoneVal

\* Only the model call or the save can still fail a run that rendered.
EndsWell ==
  result.aborted => result.cause \in {"generation", "io", "exists"}

FallbackCalendar == IF entry = "script" THEN CAL_FALLBACK_DAY ELSE CAL_FALLBACK_TODAY
FallbackTasks == IF entry = "script" THEN TASKS_FALLBACK_DAY ELSE TASKS_FALLBACK_TODAY

ExactlyOneOutcome ==
  \/ result.saved /\ ~result.previewed /\ ~result.aborted
  \/ ~result.saved /\ result.previewed /\ ~result.aborted
  \/ ~result.saved /\ ~result.previewed /\ result.aborted

\* C8: a run of the script or the CLI ends Saved, PreviewedOnly or Aborted,
\* exactly one of them; the note file differs from what the run found only
\* when it ended Saved, never after a dry run, and never when the file
\* existed and --force was not given.
C8_WrittenOnlyWhenSaved ==
  pc = "done" /\ entry \in {"script", "cli"} =>
    /\ ExactlyOneOutcome
    /\ ~result.saved => note = note_at_start
    /\ args.dry_run => note = note_at_start /\ ~result.saved
    /\ note_at_start # NoFile /\ ~args.force => note = note_at_start

\* C9: with no notes folder configured a run ends Aborted, the note file is
\* as it was and no chat message has been sent.
C9_NoFolderAborts ==
  pc = "done" /\ ~env.folder =>
    /\ result.aborted
    /\ note = note_at_start
    /\ sent = <<>>

\* C10: after a save by update_diary.py, failed or not, the note file holds
\* either what the run found or the whole merged document.
C10_NoPartialFile ==
  pc = "done" /\ entry = "script" /\ rendered # NoneVal /\ ~args.dry_run =>
    /\ result.saved \/ (result.aborted /\ result.cause \in {"io", "exists"})
    /\ \/ note = note_at_start
       \/ note = replace_diary_section(Existing(note_at_start), rendered)

----------------------------------------------------------------------------
(* Properties of the registry (SpecRegistry)                               *)

Reloaded == reloads > 0

\* C11: after a reload that returned, every entry has a non-empty name and
\* a non-empty kind; after a reload that raised, no entry constructed by an
\* earlier reload is still in the registry.
C11_ReloadValidOrDiscarded ==
  Reloaded =>
    /\ outcome.ok =>
         \A n \in DOMAIN mcps : mcps[n].name # "" /\ mcps[n].type # ""
    /\ ~outcome.ok =>
         \A n \in DOMAIN mcps : loaded_at[n] = reloads

\* The first entry of the file that fails descriptor validation, if any.
RECURSIVE Offending(_)
Offending(entries) ==
  IF entries = <<>> THEN <<>>
  ELSE IF ~create_mcp_configuration(Head(entries).name, Head(entries).entry).ok
  THEN <<Head(entries).name>>
  ELSE Offending(Tail(entries))

\* C12: a reload raises the not-found error for a missing path, the parse
\* error for a malformed document (one without a usable extensions mapping
\* included; the format error of _parse_configuration is accepted for it),
\* the invalid-configuration error naming the entry for an entry that fails
\* validation, and nothing else.
C12_ReloadErrorClasses ==
  Reloaded /\ ~outcome.ok =>
    /\ outcome.kind \in {"FileNotFoundError", "YAMLError", "ValueError"}
    /\ outcome.kind = "FileNotFoundError" <=> config_file.kind = "missing"
    /\ config_file.kind = "malformed" => outcome.kind = "YAMLError"
    /\ config_file.kind \in {"empty", "list", "no_extensions", "extensions_not_dict"} =>
         outcome.kind \in {"YAMLError", "ValueError"} /\ outcome.about = ""
    /\ config_file.kind = "extensions" =>
         outcome.kind = "ValueError" /\ <<outcome.about>> = Offending(config_file.entries)

\* The same server in the two dialects.
OnlyEntry(raw) == [kind |-> "extensions", entries |-> <<[name |-> "cal", entry |-> raw]>>]
DialectFiles == {OnlyEntry(ExtensionsEntry), OnlyEntry(LegacyEntry)}

\* C13: the entry {cmd: "x", args: ["a"], envs: {K: "v"}} and its legacy
\* command/args form both load, and the launch descriptor of either has
\* command "x", args ["a"] and env {K: "v"}.
C13_DialectsAgree ==
  Reloaded /\ config_file \in DialectFiles =>
    /\ outcome.ok
    /\ "cal" \in DOMAIN mcps
    /\ LET got == get_server_params(mcps["cal"], os_environ)
       IN  /\ got.ok
           /\ got.params = [command |-> "x", args |-> <<"a">>, env |-> [K |-> "v"]]

Called == asked # EmptyDict

NoCommandStored(mcp) ==
  Get(mcp.config, "cmd", "") = "" /\ Get(mcp.config, "command", "") = ""

\* C14: asking an entry without a command for its launch descriptor raises
\* an error naming the entry, and a launch descriptor that is returned has
\* a non-empty command.
C14_CommandNeverDefaulted ==
  Called =>
    /\ NoCommandStored(asked) => ~server_params.ok /\ server_params.about = asked.name
    /\ server_params.ok => server_params.params.command # ""

C14_Witness ==
  /\ Called /\ asked.config = EmptyDict /\ asked.type = "stdio"
  /\ ~server_params.ok /\ server_params.about = "cal"

\* C15: get_server_params leaves the descriptor it is called on as it was.
C15_DescriptorUnchanged ==
  Called => mcps[asked.name] = asked

----------------------------------------------------------------------------
(* Properties of MCPClient (SpecClient)                                    *)

\* C16: a finished get_response never ends with an exception: a failure of
\* the launch, the handshake, the tool listing or a model call is caught and
\* the caller gets a result.
C16_NeverRaises == cpc = "done" => returned.status # "raised"

\* The first response carries no usable text: no candidates, no content, no
\* parts, or parts whose text is missing or not a string.
Degenerate ==
  \/ response \in {"no_candidates", "no_content", "parts_none"}
  \/ /\ response = "parts"
     /\ \/ final_text = <<>>
        \/ \E i \in DOMAIN final_text : final_text[i] = NOT_A_STR

\* C17: a finished get_response whose first response carried no usable text
\* returned the absent value, and logged an error naming the tool.
C17_AbsentOnDegenerate ==
  (cpc = "done" /\ Degenerate)
    => /\ returned.status = "returned"
       /\ returned.absent
       /\ \E l \in clog : l.level = "error" /\ l.names = "client"

\* C18 (as stated): a finished get_response made at most one tool call and
\* at most two generation calls, and a function call of the first response
\* was executed and, once its result was there, followed by a second
\* generation call.
C18_SingleFollowUpRound ==
  cpc = "done"
    => /\ tool_calls <= 1
       /\ gen_calls <= 2
       /\ fn_parts >= 1 => tool_calls = 1
       /\ tool_results = 1 => gen_calls = 2

\* C18 (amended): a finished get_response executed one tool call for every
\* function-call part of the first response, made one follow-up generation
\* call for every tool call that returned a result, and executed nothing a
\* follow-up response asked for.
C18_OneRoundPerFunctionCall ==
  (cpc = "done" /\ gen_calls >= 1)
    => /\ tool_calls = fn_parts
       /\ tool_results <= tool_calls
       /\ gen_calls = 1 + tool_results

\* A first response with two function calls, both executed and followed up.
C18_Witness ==
  /\ cpc = "done"
  /\ returned.status = "returned"
  /\ fn_parts = 2
  /\ tool_results = 2
  /\ gen_calls = 3

\* Position of a lifecycle event in the order start, handshake, list tools,
\* model round trips (with their tool calls), shutdown.
Rank(event) ==
  CASE event = "start"      -> 1
    [] event = "handshake"  -> 2
    [] event = "list_tools" -> 3
    [] event = "shutdown"   -> 5
    [] OTHER                -> 4

Ordered(events) ==
  /\ \A i \in DOMAIN events : \A j \in DOMAIN events :
       i < j => /\ Rank(events[i]) <= Rank(events[j])
                /\ Rank(events[i]) \in {1, 2, 3, 5} => Rank(events[i]) < Rank(events[j])
  /\ events # <<>> => events[1] = "start"

\* C19: a finished get_response that started a subprocess went through its
\* lifecycle in order and ended with the shutdown, the subprocess stopped and
\* the session not live; and call_tool / list_tools made while no
\* get_response is running fail with "Client not initialized".
C19_OneLifecyclePerInvocation ==
  /\ Ordered(lifecycle)
  /\ (cpc = "done" /\ lifecycle # <<>>)
       => /\ lifecycle[Len(lifecycle)] = "shutdown"
          /\ subprocess = "stopped"
          /\ client_session # "live"
  /\ (cpc \in {"idle", "done"} /\ outside # "none")
       => outside = "Client not initialized"

----------------------------------------------------------------------------
(* Properties of send_agenda (SpecSchedule)                                *)

WeatherAbsent == agenda_env.weather \in FailingModes
AgendaCalendarAbsent == agenda_env.cal \in FailingModes

\* The run is past the job checks and the registry load, and the final
\* model call answers with text.
AgendaCanFinish ==
  /\ job.job /\ job.data /\ job.chat_id
  /\ agenda_env.registry = "ok"
  /\ agenda_env.final = "text"

\* C20: a finished send_agenda whose weather or calendar source failed
\* (configuration not found, launch-descriptor error, invocation failure,
\* empty text) did not abort: the source's placeholder is in the prompt, the
\* final model call was made and its text was sent to the chat.
C20_AgendaDegrades ==
  (spc = "done" /\ AgendaCanFinish /\ (WeatherAbsent \/ AgendaCalendarAbsent))
    => /\ agenda_result.status = "sent"
       /\ agenda_sent = <<AGENDA>>
       /\ WeatherAbsent => Contains(agenda_prompt, WEATHER_FALLBACK)
       /\ AgendaCalendarAbsent => Contains(agenda_prompt, AGENDA_CAL_FALLBACK)

\* The run reached the final generate_content call.
AgendaGenerated == spc = "done" /\ agenda_prompt # <<>>

\* C21: a send_agenda whose final model response has no text (None or "")
\* raised "Empty response from AI" and sent nothing; something was sent to
\* the chat only after a final response with text.
C21_EmptyGenerationRaises ==
  /\ (AgendaGenerated /\ agenda_env.final \in {"empty", "no_text"})
       => /\ agenda_result = AgendaEnded("raised", "Empty response from AI")
          /\ agenda_sent = <<>>
  /\ (agenda_sent # <<>> \/ agenda_result.status = "sent")
       => /\ agenda_env.final = "text"
          /\ agenda_sent = <<AGENDA>>

\* A run that fetched both sources and got "" as the final text.
C21_Witness ==
  /\ AgendaGenerated
  /\ agenda_env.final = "empty"
  /\ agenda_result.status = "raised"

----------------------------------------------------------------------------
(* Properties of the order of the tool invocations (SpecOrder)             *)

InFlight == {c \in {"calendar", "tasks"} :
               (c = "calendar" /\ cal_call = "in_flight")
                 \/ (c = "tasks" /\ tasks_call = "in_flight")}

\* C22: at most one tool invocation is in flight; the task source is taken
\* up only after the calendar invocation has completed or failed; the
\* template is rendered only after both have finished.
C22_SequentialToolCalls ==
  /\ Cardinality(InFlight) <= 1
  /\ tasks_call # "pending" => cal_call \in {"done", "failed", "skipped"}
  /\ template_rendered
       => /\ cal_call \in {"done", "failed", "skipped"}
          /\ tasks_call \in {"done", "failed", "skipped"}

\* Both tools were invoked, the calendar one failed, and the template was
\* rendered.
C22_Witness ==
  /\ template_rendered
  /\ call_events = <<"issue calendar", "end calendar", "issue tasks", "end tasks", "render">>
  /\ cal_call = "failed"
  /\ tasks_call = "done"

----------------------------------------------------------------------------
(* Properties of the command-line exit codes (SpecDiary)                   *)

----------------------------------------------------------------------------
(* Properties of the bot handlers (SpecBot)                                *)

\* The sender of the last update is not let through by a filter that has
\* entries: there is no effective user, or the username is not listed.
SenderNotAllowed ==
  /\ user_filter # <<>>
  /\ \/ ~bot_update.user
     \/ \A i \in DOMAIN user_filter : user_filter[i] # bot_update.username

\* C24: a handler called by a sender who is not allowed sent no reply,
\* reloaded no tool configuration and made no model or tool call.
C24_AuthorizationGate ==
  (bot_handler # "none" /\ SenderNotAllowed) => bot_effects = NoEffects

\* A tool command with arguments from a user the filter does not list.
C24_Witness ==
  /\ bot_handler = "mcp"
  /\ user_filter = << <<"alice">>, <<"bob">> >>
  /\ bot_update = [user |-> TRUE, username |-> <<"mallory">>, message |-> "text",
                   args |-> TRUE]
  /\ bot_effects = NoEffects

\* The last handler call reached its is_user_allowed check.
AuthorizationChecked ==
  /\ bot_handler # "none"
  /\ bot_handler = "photo" => bot_update.message = "photo"

\* C25: with USER_FILTER unset or empty, is_user_allowed returned true for
\* every update.
C25_NoFilterAllowsAll ==
  (AuthorizationChecked /\ user_filter_env \in {NoneVal, <<>>}) => bot_allowed

----------------------------------------------------------------------------
(* Properties of the Todoist notes (SpecTodoist)                           *)

\* The completion date the export format records in a note: the value of
\* its completed_date line.
RecordedCompletion(file) ==
  IF file.exists THEN FrontmatterValue(file.lines, "completed_date:") ELSE NoneVal

\* C26: the scan for date d lists exactly the notes of the folder whose
\* recorded completion date is d.
C26_ScanMatchesExport ==
  scan.done
    => \A id \in TaskIds :
         id \in scan.listed <=> RecordedCompletion(scan.folder[id]) = <<scan.today>>

\* The last export_task wrote a file that existed before.
Reexported ==
  /\ last_export.id # "none"
  /\ last_export.before.exists
  /\ last_export.after.exists

\* C29: an export of unchanged task data leaves the note as it was, and every
\* export of an existing note carries the lines after the third "---" line
\* over unchanged.
C29_ReexportIdempotent ==
  Reexported
    => /\ last_export.unchanged_data => last_export.after = last_export.before
       /\ Cardinality(Separators(last_export.before.lines)) >= 3
            => UserLines(last_export.after.lines) = UserLines(last_export.before.lines)

----------------------------------------------------------------------------
(* Properties of the launches                                              *)

\* C27: no chat command, diary run or schedule run asks for the launch
\* descriptor of an entry that the configuration has with enabled = false.
C27_DisabledNeverLaunched ==
  \A l \in launches : l.state # "disabled"

----------------------------------------------------------------------------
(* The number of diary headings after a merge (SpecMerge)                  *)

\* The number of lines of a text whose trimmed value is "## Diary"
DiaryHeadings(doc) ==
  Cardinality({ i \in 1..Len(SplitLines(doc)) : IsDiaryHeading(SplitLines(doc)[i]) })

\* C30 as stated: for every document D and every new section S with exactly
\* one "## Diary" heading line, the merge of S into D has exactly one
\* "## Diary" heading line.
C30_ExactlyOneHeading ==
  (mstep # "input" /\ DiaryHeadings(new_diary_section) = 1)
    => DiaryHeadings(merged) = 1

\* C30 (amended): for every document D and every new section S with exactly
\* one "## Diary" heading line, the merge has one "## Diary" heading line
\* for each such line of D, and one when D has none: exactly one whenever D
\* has at most one.
C30_OneHeadingPerOldHeading ==
  (mstep # "input" /\ DiaryHeadings(new_diary_section) = 1)
    => DiaryHeadings(merged) =
         IF DiaryHeadings(existing_content) = 0 THEN 1
         ELSE DiaryHeadings(existing_content)

\* A document with two "## Diary" lines has been merged with such a section.
C30_Witness ==
  /\ mstep # "input"
  /\ DiaryHeadings(new_diary_section) = 1
  /\ DiaryHeadings(existing_content) = 2
  /\ DiaryHeadings(merged) = 2

----------------------------------------------------------------------------
(* Properties of overlapping saves (SpecSave)                              *)

\* Both runs have ended and both have written.
BothSaved == \A p \in Savers : saver_pc[p] = "done"

\* The text of the note before the runs ("" for no file)
OriginalText == IF original_note = NoFile THEN <<>> ELSE original_note

\* C28: when two save runs for one note file have both ended, whatever the
\* order of their read, truncate and write steps, the note holds every
\* section of the original file other than the diary section, unchanged
\* and in order, and exactly one "## Diary" heading line.
C28_OverlappingSavesKeepForeign ==
  BothSaved
    => /\ IsSubsequence(ForeignSections(OriginalText), ForeignSections(shared_note))
       /\ DiaryHeadings(shared_note) = 1

========================================================================
